---- MODULE Spec2Model ----
(***************************************************************************)
(* MD2PDF: the Markdown -> HTML -> PDF / Word conversion pipeline, the     *)
(* style/theme registry, the emoji resolver and the PDF watermark.         *)
(*                                                                         *)
(* The specifications share the variables:                                 *)
(*   Spec              one conversion by PDFConverter / WordConverter,     *)
(*                     followed by watermark extraction                    *)
(*   SpecRegistry      the StyleLoader (discovery caches, compose, list,   *)
(*                     validate) over directories that stay as they are    *)
(*   SpecRegistryLive  the StyleLoader while its directories change        *)
(*   SpecThreads       two threads building converters on one StyleLoader  *)
(*   SpecEmoji         the emoji resolver (candidates, local/CDN)          *)
(*   SpecHeader        the header composer and the document assembly       *)
(*   SpecHighlight     the highlighting of code blocks                     *)
(*   SpecWord          the rendering of HTML elements as Word paragraphs   *)
(***************************************************************************)
EXTENDS Naturals, Sequences, FiniteSets

VARIABLES
    \* ---- emoji resolver
    grapheme,       \* the grapheme cluster handed to replacement(): its code points
    svg_dir,        \* names (token sequences) of the files <name>.svg in assets/twemoji/svg
    emoji_src,      \* the src of the <img> emitted by replacement()
    \* ---- style / theme registry (StyleLoader)
    styles_dir,     \* the styles/templates directory
    themes_dir,     \* the themes directory
    styles_cache,   \* StyleLoader._styles_cache
    themes_cache,   \* StyleLoader._themes_cache
    compose_out,    \* outcome of the last combine_style_and_theme call
    reg_out,        \* outcome of the last discover / list / validate call
    \* ---- one conversion
    lib,            \* which optional libraries the runtime has
    fs,             \* the files the conversion reads and writes
    fs0,            \* the files as they were before the converter was built
    conv,           \* the converter object (BaseConverter fields)
    pc,             \* position inside the constructor / convert() / _embed_watermark()
    steps,          \* the pipeline steps executed so far, in order
    faults,         \* the steps that raised an exception
    result,         \* what convert() returned
    written,        \* the paths opened for writing so far
    warned,         \* a "Warning: ..." line was printed by _embed_watermark
    wm_out,         \* outcome of the last extract_watermark call
    \* ---- threads converting concurrently on the shared registry
    thr,            \* per thread: where it is in discover / compose, and its locals
    \* ---- header composer (HeaderProcessor, _create_html_document)
    header_dir,     \* the data/header directory
    header_out,     \* outcome of the last create_header_html + _create_html_document
    \* ---- syntax highlighting (MarkdownProcessor._highlight_code_blocks)
    html_text,      \* the HTML handed to _highlight_code_blocks, as tokens
    highlighted,    \* what _highlight_code_blocks returned
    \* ---- Word renderer (WordConverter._convert_html_to_word)
    soup,           \* the parsed HTML: its elements in document order
    doc_paragraphs, \* the paragraphs added to the Word document, in order
    \* ---- Markdown pipeline (MarkdownProcessor.process_markdown)
    mdp,            \* the processors built so far and the runs made on them
    \* ---- command line (md2pdf convert / md2pdf batch)
    cli,            \* the invocation: its files, counters, calls and exit status
    \* ---- folder workflow (WorkflowProcessor.process_files)
    wf              \* the three folders, the loop position and the count

emojiVars == <<grapheme, svg_dir, emoji_src>>
registryVars == <<styles_dir, themes_dir, styles_cache, themes_cache, compose_out, reg_out>>
convVars == <<lib, fs, fs0, conv, pc, steps, faults, result, written, warned, wm_out>>
sideVars == <<thr, header_dir, header_out, html_text, highlighted, soup, doc_paragraphs>>
toolVars == <<mdp, cli, wf>>
vars == <<emojiVars, registryVars, convVars, sideVars, toolVars>>

(***************************************************************************)
(* Small helpers on sequences.                                             *)
(***************************************************************************)
Range(s) == {s[i] : i \in 1..Len(s)}

Contains(s, x) == \E i \in 1..Len(s) : s[i] = x

\* All sequences over S of length lo..hi.
SeqsOf(S, lo, hi) == UNION {[1..n -> S] : n \in lo..hi}

(***************************************************************************)
(* EMOJI RESOLVER  (MarkdownProcessor._replace_emojis_with_images)         *)
(*                                                                         *)
(* A codepoint string "1f600-fe0f" is represented by the sequence of its   *)
(* hyphen-separated tokens <<"1f600", "fe0f">>: "-".join and split("-")    *)
(* are inverse on hex tokens, and the empty string is the empty sequence.  *)
(***************************************************************************)
MaxLen == 3

HexDigit == <<"0", "1", "2", "3", "4", "5", "6", "7",
              "8", "9", "a", "b", "c", "d", "e", "f">>

\* f"{n:x}": lowercase hexadecimal, no padding
RECURSIVE Hex(_)
Hex(n) == IF n < 16 THEN HexDigit[n + 1]
          ELSE Hex(n \div 16) \o HexDigit[(n % 16) + 1]

\* "-".join(f"{ord(ch):x}" for ch in grapheme)
to_twemoji_codepoints(g) == [i \in 1..Len(g) |-> Hex(g[i])]

\* add() without the "not in candidates" test
add_no_dedup(candidates, c) ==
    IF c # <<>> THEN Append(candidates, c) ELSE candidates

\* add(c): append c unless it is empty or already a candidate
add(candidates, c) ==
    IF c # <<>> /\ ~Contains(candidates, c) THEN Append(candidates, c) ELSE candidates

\* [p for p in parts if p not in ("fe0f", "fe0e")]
IsNotFe(p) == p \notin {"fe0f", "fe0e"}
parts_no_fe(parts) == SelectSeq(parts, IsNotFe)

\* ["fe0f" if p == "fe0e" else p for p in parts]
swapped(parts) == [i \in 1..Len(parts) |-> IF parts[i] = "fe0e" THEN "fe0f" ELSE parts[i]]

\* parts[:-1]
ButLast(parts) == SubSeq(parts, 1, Len(parts) - 1)

\* normalize_candidates, statement by statement; c1..c5 are the successive
\* values of the local list `candidates`
normalize_candidates(codepoints) ==
    LET parts == codepoints
        c1 == add(<<>>, codepoints)
        c2 == IF parts_no_fe(parts) # <<>> THEN add(c1, parts_no_fe(parts)) ELSE c1
        c3 == IF Contains(parts, "fe0e") THEN add(c2, swapped(parts)) ELSE c2
        has_fe0f == Contains(parts, "fe0f")
        c4 == IF parts # <<>> /\ ~has_fe0f
              THEN add(add(c3, parts \o <<"fe0f">>),
                       <<parts[1], "fe0f">> \o Tail(parts))
              ELSE c3
        c5 == IF parts # <<>> /\ parts[Len(parts)] = "20e3"
                 /\ ~Contains(ButLast(parts), "fe0f")
              THEN add(c4, ButLast(parts) \o <<"fe0f", parts[Len(parts)]>>)
              ELSE c4
    IN c5

\* local_path.exists() for assets/twemoji/svg/<candidate>.svg
LocalExists(dir, candidate) == candidate \in dir

\* the loop without its break: the last candidate with a local file wins
RECURSIVE LastLocal(_, _, _)
LastLocal(dir, cands, i) ==
    IF i > Len(cands) THEN 0
    ELSE LET later == LastLocal(dir, cands, i + 1)
         IN IF later # 0 THEN later
            ELSE IF LocalExists(dir, cands[i]) THEN i ELSE 0

\* the for ... else of replacement(): index of the first candidate with a
\* local file, 0 when the loop ends without break
RECURSIVE FirstLocal(_, _, _)
FirstLocal(dir, cands, i) ==
    IF i > Len(cands) THEN 0
    ELSE IF LocalExists(dir, cands[i]) THEN i
    ELSE FirstLocal(dir, cands, i + 1)

\* replacement() building the CDN URL from the last candidate
replacement_cdn_last(dir, g) ==
    LET base == to_twemoji_codepoints(g)
        cands == normalize_candidates(base)
        hit == FirstLocal(dir, cands, 1)
    IN IF hit # 0
       THEN [called |-> TRUE, kind |-> "local", name |-> cands[hit], cands |-> cands]
       ELSE [called |-> TRUE, kind |-> "cdn", name |-> cands[Len(cands)], cands |-> cands]

\* replacement(grapheme): the src attribute of the emitted <img>
replacement(dir, g) ==
    LET base == to_twemoji_codepoints(g)
        cands == normalize_candidates(base)
        hit == FirstLocal(dir, cands, 1)
    IN IF hit # 0
       THEN [called |-> TRUE, kind |-> "local", name |-> cands[hit], cands |-> cands]
       ELSE [called |-> TRUE, kind |-> "cdn", name |-> normalize_candidates(base)[1],
             cands |-> cands]

\* Code points the graphemes are drawn from: an emoji, the digit 1,
\* VARIATION SELECTOR-16 and -15, COMBINING ENCLOSING KEYCAP.
CodePoints == {128512, 49, 65039, 65038, 8419}

Graphemes == SeqsOf(CodePoints, 1, MaxLen)

\* s with x inserted after its first i elements
InsertAt(s, i, x) == SubSeq(s, 1, i) \o <<x>> \o SubSeq(s, i + 1, Len(s))

\* File names that may lie in the asset directory next to a cluster's own
\* name: the name itself, with the selectors dropped, with fe0e turned into
\* fe0f, and with one fe0f put at any position (first, middle or last).
AssetNames(g) ==
    LET b == to_twemoji_codepoints(g)
    IN ({b, parts_no_fe(b), swapped(b)} \cup {InsertAt(b, i, "fe0f") : i \in 0..Len(b)})
       \ {<<>>}

NoSrc == [called |-> FALSE, kind |-> "none", name |-> <<>>, cands |-> <<>>]

(***************************************************************************)
(* STYLE / THEME REGISTRY  (StyleLoader)                                   *)
(*                                                                         *)
(* A directory is [exists, files, unreadable, edited, uncommented]: the    *)
(* stems of its *.css files, those of them that open() cannot read, those  *)
(* whose content was rewritten after the registry was built and those      *)
(* that hold no block comment.  A cache is [populated, map]: populated =   *)
(* FALSE is Python's None.                                                 *)
(***************************************************************************)
StyleKeys == {"technical", "story"}
ThemeKeys == {"default", "dark"}

\* keys a caller may ask for: one that a directory may hold and one that
\* never exists (the keys of a directory are interchangeable)
StyleRequests == {"technical", "nosuch"}
ThemeRequests == {"default", "nosuch"}

NoDir == [exists |-> FALSE, files |-> {}, unreadable |-> {}, edited |-> {},
          uncommented |-> {}]

DirStates(keys) ==
    {NoDir} \cup
    {d \in [exists : {TRUE}, files : SUBSET keys, unreadable : SUBSET keys, edited : {{}},
             uncommented : {{}}] :
        d.unreadable \subseteq d.files}

\* the same directories, each readable file with or without a block comment
MetaDirStates(keys) ==
    UNION {{[d EXCEPT !.uncommented = u] : u \in SUBSET (d.files \ d.unreadable)} :
              d \in DirStates(keys)}

NoMap == [k \in {} |-> [file |-> <<>>]]

EmptyCache == [populated |-> FALSE, map |-> NoMap]

\* the text of the CSS file <kind>/<key>.css as it is on disk now
FileText(dir, kind, key) ==
    IF key \in dir.edited THEN <<kind, key, "edited">> ELSE <<kind, key>>

\* open(file).read() succeeds
FileReadable(dir, key) == dir.exists /\ key \in dir.files /\ key \notin dir.unreadable

\* str.title() of the keys
Title == [technical |-> "Technical", story |-> "Story", default |-> "Default",
          dark |-> "Dark"]

\* "style" for the styles directory, "theme" for the themes directory
KindWord(kind) == IF kind = "styles" THEN "style" ELSE "theme"

NoInfo == [has_name |-> FALSE, name |-> <<>>, has_description |-> FALSE,
           description |-> <<>>]

\* _extract_style_info / _extract_theme_info: the text of the first block
\* comment as name and as description; nothing when there is no comment or
\* when reading the file raises (the exception is caught and printed).
\* A rewrite of a file changes its rules and keeps its leading comment.
extract_info(kind, dir, key) ==
    IF ~FileReadable(dir, key) THEN NoInfo
    ELSE IF key \in dir.uncommented THEN NoInfo
    ELSE LET comment == <<"comment of", kind, key>>
         IN [has_name |-> TRUE, name |-> comment,
             has_description |-> TRUE, description |-> comment]

\* a descriptor built from the extracted information alone
Descriptor_without_defaults(kind, dir, key) ==
    LET info == extract_info(kind, dir, key)
    IN [name |-> info.name, description |-> info.description, file |-> <<kind, key>>]

\* the descriptor discovery stores for <key>.css: name and description
\* from the file or by default, "file": str(css_file)
Descriptor(kind, dir, key) ==
    LET info == extract_info(kind, dir, key)
    IN [name |-> IF info.has_name THEN info.name ELSE <<Title[key]>>,
        description |-> IF info.has_description THEN info.description
                        ELSE <<Title[key], KindWord(kind)>>,
        file |-> <<kind, key>>]

\* a discovery that lists the directory on every call
discover_rescanning(kind, cache, dir) ==
    IF ~dir.exists THEN [ret |-> NoMap, cache |-> cache, scanned |-> FALSE]
    ELSE LET found == [k \in dir.files |-> Descriptor(kind, dir, k)]
         IN [ret |-> found, cache |-> [populated |-> TRUE, map |-> found],
             scanned |-> TRUE]

\* a discovery that stores the empty mapping of a missing directory
discover_storing_missing(kind, cache, dir) ==
    IF cache.populated THEN [ret |-> cache.map, cache |-> cache, scanned |-> FALSE]
    ELSE IF ~dir.exists
    THEN [ret |-> NoMap, cache |-> [populated |-> TRUE, map |-> NoMap], scanned |-> FALSE]
    ELSE LET found == [k \in dir.files |-> Descriptor(kind, dir, k)]
         IN [ret |-> found, cache |-> [populated |-> TRUE, map |-> found],
             scanned |-> TRUE]

\* discover_styles / discover_themes: the mapping returned, the cache left
\* and whether the call listed the directory (glob)
discover(kind, cache, dir) ==
    IF cache.populated THEN [ret |-> cache.map, cache |-> cache, scanned |-> FALSE]
    ELSE IF ~dir.exists THEN [ret |-> NoMap, cache |-> cache, scanned |-> FALSE]
    ELSE LET found == [k \in dir.files |-> Descriptor(kind, dir, k)]
         IN [ret |-> found, cache |-> [populated |-> TRUE, map |-> found],
             scanned |-> TRUE]

discover_styles(cache, dir) == discover("styles", cache, dir)
discover_themes(cache, dir) == discover("themes", cache, dir)

\* what one call of discover_styles / discover_themes inside an operation saw
NoSeen == [called |-> FALSE, scanned |-> FALSE, map |-> NoMap]
Seen(d) == [called |-> TRUE, scanned |-> d.scanned, map |-> d.ret]

NoErr == [kind |-> "none", key |-> "", available |-> {}]

\* get_style_css / get_theme_css: the CSS text, or the ValueError raised
get_css(kind, notfound, readerr, cache, dir, name) ==
    LET d == discover(kind, cache, dir)
    IN IF name \notin DOMAIN d.ret
       THEN [ok |-> FALSE, css |-> <<>>, cache |-> d.cache, seen |-> Seen(d),
             err |-> [kind |-> notfound, key |-> name, available |-> DOMAIN d.ret]]
       ELSE IF ~FileReadable(dir, name)
       THEN [ok |-> FALSE, css |-> <<>>, cache |-> d.cache, seen |-> Seen(d),
             err |-> [kind |-> readerr, key |-> name, available |-> {}]]
       ELSE [ok |-> TRUE, css |-> FileText(dir, kind, name), cache |-> d.cache,
             seen |-> Seen(d), err |-> NoErr]

get_style_css(cache, dir, name) ==
    get_css("styles", "style_not_found", "style_read", cache, dir, name)

get_theme_css(cache, dir, name) ==
    get_css("themes", "theme_not_found", "theme_read", cache, dir, name)

\* a compose that puts the style's text first
combine_style_first(sc, tc, sdir, tdir, style_name, theme_name) ==
    LET st == get_style_css(sc, sdir, style_name)
        th == get_theme_css(tc, tdir, theme_name)
    IN [status |-> IF st.ok /\ th.ok THEN "ok" ELSE "error",
        css |-> IF st.ok /\ th.ok THEN st.css \o <<"\n\n">> \o th.css ELSE <<>>,
        err |-> IF ~st.ok THEN st.err ELSE th.err,
        styles_cache |-> st.cache, themes_cache |-> th.cache,
        styles |-> st.seen, themes |-> th.seen]

\* combine_style_and_theme: f"{theme_css}\n\n{style_css}", or the error of
\* the first of the two reads that raises; the caches as the calls leave them
combine_style_and_theme(sc, tc, sdir, tdir, style_name, theme_name) ==
    LET st == get_style_css(sc, sdir, style_name)
        th == get_theme_css(tc, tdir, theme_name)
    IN IF ~st.ok
       THEN [status |-> "error", css |-> <<>>, err |-> st.err,
             styles_cache |-> st.cache, themes_cache |-> tc,
             styles |-> st.seen, themes |-> NoSeen]
       ELSE IF ~th.ok
       THEN [status |-> "error", css |-> <<>>, err |-> th.err,
             styles_cache |-> st.cache, themes_cache |-> th.cache,
             styles |-> st.seen, themes |-> th.seen]
       ELSE [status |-> "ok", css |-> th.css \o <<"\n\n">> \o st.css, err |-> NoErr,
             styles_cache |-> st.cache, themes_cache |-> th.cache,
             styles |-> st.seen, themes |-> th.seen]

NoCompose == [called |-> FALSE, style |-> "", theme |-> "", status |-> "none",
              css |-> <<>>, err |-> NoErr, styles |-> NoSeen, themes |-> NoSeen]

\* sorted(list(mapping.keys())): the keys in alphabetical order
Alphabetical == <<"dark", "default", "nosuch", "story", "technical">>
sorted(keys) == SelectSeq(Alphabetical, LAMBDA k : k \in keys)

\* list_available_styles / list_available_themes
list_available(kind, cache, dir) ==
    LET d == discover(kind, cache, dir)
    IN [ret |-> sorted(DOMAIN d.ret), cache |-> d.cache, seen |-> Seen(d)]

list_available_styles(cache, dir) == list_available("styles", cache, dir)
list_available_themes(cache, dir) == list_available("themes", cache, dir)

\* a validation that looks at the style key only
validate_style_only(sc, tc, sdir, tdir, style_name, theme_name) ==
    LET st == discover_styles(sc, sdir)
        th == discover_themes(tc, tdir)
    IN [ret |-> style_name \in DOMAIN st.ret,
        styles_cache |-> st.cache, themes_cache |-> th.cache,
        styles |-> Seen(st), themes |-> Seen(th)]

\* validate_combination
validate_combination(sc, tc, sdir, tdir, style_name, theme_name) ==
    LET st == discover_styles(sc, sdir)
        th == discover_themes(tc, tdir)
    IN [ret |-> style_name \in DOMAIN st.ret /\ theme_name \in DOMAIN th.ret,
        styles_cache |-> st.cache, themes_cache |-> th.cache,
        styles |-> Seen(st), themes |-> Seen(th)]

\* the nested loops of get_available_combinations: for each style, for each
\* theme, append (style, theme); the mappings are walked in the order of
\* their keys (here alphabetical)
RECURSIVE combinations(_, _)
combinations(style_names, theme_names) ==
    IF style_names = <<>> THEN <<>>
    ELSE [i \in 1..Len(theme_names) |-> <<Head(style_names), theme_names[i]>>]
         \o combinations(Tail(style_names), theme_names)

get_available_combinations(sc, tc, sdir, tdir) ==
    LET st == discover_styles(sc, sdir)
        th == discover_themes(tc, tdir)
    IN [ret |-> combinations(sorted(DOMAIN st.ret), sorted(DOMAIN th.ret)),
        styles_cache |-> st.cache, themes_cache |-> th.cache,
        styles |-> Seen(st), themes |-> Seen(th)]

NoQuery == [op |-> "none", style |-> "", theme |-> "", styles |-> NoSeen,
            themes |-> NoSeen, names |-> <<>>, pairs |-> <<>>, valid |-> FALSE]

(***************************************************************************)
(* CONVERTERS  (BaseConverter, PDFConverter, WordConverter)                *)
(*                                                                         *)
(* A path is [stem, suffix] (pathlib's stem and suffix of the final        *)
(* component); stem "" is a path with an empty name, such as "." or "/".   *)
(* A file is [kind, meta, xmp]; meta is the /MD2PDF_Watermark entry of a   *)
(* PDF's document information, xmp the content of its <md2pdf:watermark>   *)
(* element.  A text is a sequence of characters; "NL" stands for a line    *)
(* break and "CLOSE" for the literal text "</md2pdf:watermark>".           *)
(***************************************************************************)
Suffixes == {"", ".txt", ".pdf", ".PDF", ".docx", ".DOCX"}

\* str.lower() on the suffixes
Lower(sfx) ==
    CASE sfx = ".PDF" -> ".pdf"
      [] sfx = ".DOCX" -> ".docx"
      [] OTHER -> sfx

\* Path.with_suffix: ValueError on an empty name
with_suffix(path, ext) ==
    IF path.stem = ""
    THEN [ok |-> FALSE, path |-> path]
    ELSE [ok |-> TRUE, path |-> [stem |-> path.stem, suffix |-> ext]]

\* _ensure_pdf_extension without the normalisation
keep_extension(output_path) == [ok |-> TRUE, path |-> output_path]

\* PDFConverter._ensure_pdf_extension
ensure_pdf_extension(output_path) ==
    IF Lower(output_path.suffix) # ".pdf"
    THEN with_suffix(output_path, ".pdf")
    ELSE [ok |-> TRUE, path |-> output_path]

\* WordConverter._ensure_docx_extension
ensure_docx_extension(output_path) ==
    IF Lower(output_path.suffix) # ".docx"
    THEN with_suffix(output_path, ".docx")
    ELSE [ok |-> TRUE, path |-> output_path]

\* _generate_output_path of the two converters
generate_output_path(fmt, input_file) ==
    with_suffix(input_file, IF fmt = "pdf" THEN ".pdf" ELSE ".docx")

InputPath == [stem |-> "doc", suffix |-> ".md"]

NoPath == [stem |-> "", suffix |-> ""]

\* the files of the model: the input, and every name an output can take
FsPaths == {InputPath} \cup [stem : {"doc", "out"}, suffix : Suffixes]

\* output_file as the caller gives it: None, a name with any suffix, or a
\* path with an empty name
OutputArgs ==
    {[given |-> FALSE, path |-> NoPath], [given |-> TRUE, path |-> NoPath]}
    \cup {[given |-> TRUE, path |-> [stem |-> "out", suffix |-> x]] : x \in Suffixes}

NoText == [present |-> FALSE, text |-> <<>>]

Text(t) == [present |-> TRUE, text |-> t]

\* watermark as the caller gives it: None, "", and three texts
WatermarkArgs ==
    {NoText, Text(<<>>), Text(<<"a">>), Text(<<"a", "NL", "b">>),
     Text(<<"a", "CLOSE", "b">>)}

Absent == [kind |-> "absent", meta |-> NoText, xmp |-> NoText]
Markdown == [kind |-> "markdown", meta |-> NoText, xmp |-> NoText]
Partial == [kind |-> "partial", meta |-> NoText, xmp |-> NoText]
Docx == [kind |-> "docx", meta |-> NoText, xmp |-> NoText]
Pdf(meta, xmp) == [kind |-> "pdf", meta |-> meta, xmp |-> xmp]

\* PDFs that may lie at an output path before the conversion starts
OldPdfs ==
    {Pdf(NoText, NoText), Pdf(NoText, Text(<<"b">>)), Pdf(Text(<<"b">>), Text(<<"a">>)),
     Pdf(NoText, Text(<<"b", "NL">>)), Pdf(NoText, Text(<<"b", "CLOSE", "a">>))}

NoConv == [built |-> FALSE, fmt |-> "", input_file |-> NoPath,
           output_arg |-> [given |-> FALSE, path |-> NoPath], output_file |-> NoPath,
           watermark |-> NoText, include_header |-> FALSE, css_styles |-> <<>>]

NoWm == [called |-> FALSE, via |-> "none", found |-> FALSE, text |-> <<>>]

\* `if self.watermark:` -- None and "" are falsy
WatermarkTruthy(w) == w.present /\ w.text # <<>>

\* index of the first x in s, Len(s) + 1 when there is none
RECURSIVE IndexOf(_, _, _)
IndexOf(s, x, i) ==
    IF i > Len(s) THEN i
    ELSE IF s[i] = x THEN i
    ELSE IndexOf(s, x, i + 1)

\* re.search(r"<md2pdf:watermark>(.*?)</md2pdf:watermark>", xmp_str): the
\* shortest content up to the first closing tag; "." matches no line break
xmp_search(content) ==
    LET first == SubSeq(content, 1, IndexOf(content, "CLOSE", 1) - 1)
    IN IF Contains(first, "NL") THEN NoText ELSE Text(first)

\* extract_watermark that looks at the XMP element before the metadata field
extract_xmp_first(libs, files, pdf_path, read_ok) ==
    IF ~libs.pypdf THEN [called |-> TRUE, via |-> "nolib", found |-> FALSE, text |-> <<>>]
    ELSE IF files[pdf_path].kind = "absent"
    THEN [called |-> TRUE, via |-> "missing", found |-> FALSE, text |-> <<>>]
    ELSE IF files[pdf_path].kind # "pdf" \/ ~read_ok
    THEN [called |-> TRUE, via |-> "read_error", found |-> FALSE, text |-> <<>>]
    ELSE IF files[pdf_path].xmp.present /\ xmp_search(files[pdf_path].xmp.text).present
    THEN [called |-> TRUE, via |-> "xmp", found |-> TRUE,
          text |-> xmp_search(files[pdf_path].xmp.text).text]
    ELSE IF files[pdf_path].meta.present
    THEN [called |-> TRUE, via |-> "metadata", found |-> TRUE,
          text |-> files[pdf_path].meta.text]
    ELSE [called |-> TRUE, via |-> "nothing", found |-> FALSE, text |-> <<>>]

\* extract_watermark(pdf_path); read_ok: PdfReader parses the file
extract_watermark(libs, files, pdf_path, read_ok) ==
    IF ~libs.pypdf THEN [called |-> TRUE, via |-> "nolib", found |-> FALSE, text |-> <<>>]
    ELSE IF files[pdf_path].kind = "absent"
    THEN [called |-> TRUE, via |-> "missing", found |-> FALSE, text |-> <<>>]
    ELSE IF files[pdf_path].kind # "pdf" \/ ~read_ok
    THEN [called |-> TRUE, via |-> "read_error", found |-> FALSE, text |-> <<>>]
    ELSE IF files[pdf_path].meta.present
    THEN [called |-> TRUE, via |-> "metadata", found |-> TRUE,
          text |-> files[pdf_path].meta.text]
    ELSE IF files[pdf_path].xmp.present /\ xmp_search(files[pdf_path].xmp.text).present
    THEN [called |-> TRUE, via |-> "xmp", found |-> TRUE,
          text |-> xmp_search(files[pdf_path].xmp.text).text]
    ELSE [called |-> TRUE, via |-> "nothing", found |-> FALSE, text |-> <<>>]

\* the document writer.write() produces: the pages, the metadata field, and
\* the XMP stream when PdfWriter has add_metadata_stream
watermarked_pdf(libs, watermark) ==
    Pdf(Text(watermark.text), IF libs.xmp_api THEN Text(watermark.text) ELSE NoText)

\* _read_markdown_content without the exists() test and with a silent open
read_unchecked(files, input_file, io_ok) == TRUE

\* _read_markdown_content: FALSE when it raises (FileNotFoundError, or the
\* open/read fails)
read_markdown_content(files, input_file, io_ok) ==
    IF files[input_file].kind = "absent" THEN FALSE ELSE io_ok

\* an except clause that swallows the exception and lets convert() go on
swallow(ok, next_pc) == [pc |-> next_pc, result |-> "none"]

\* the try / except Exception of convert(): a step that raises ends convert()
\* with False, a step that succeeds leads to the next statement
after_step(ok, next_pc) ==
    IF ok THEN [pc |-> next_pc, result |-> "none"]
    ELSE [pc |-> "returned", result |-> "False"]

\* the parts of the state a specification does not use stay as built
ThreadsIdle == thr = <<>>

HeaderIdle == header_dir = <<>> /\ header_out = <<>>

HighlightIdle == html_text = <<>> /\ highlighted = <<>>

WordIdle == soup = <<>> /\ doc_paragraphs = <<>>

SideIdle == ThreadsIdle /\ HeaderIdle /\ HighlightIdle /\ WordIdle

PipelineIdle == mdp = <<>>

CliIdle == cli = <<>>

WorkflowIdle == wf = <<>>

ToolIdle == PipelineIdle /\ CliIdle /\ WorkflowIdle

RegistryIdle ==
    /\ grapheme = <<>>
    /\ svg_dir = {}
    /\ emoji_src = NoSrc

ConvIdle ==
    /\ lib = [weasyprint |-> FALSE, pypdf |-> FALSE, xmp_api |-> FALSE]
    /\ fs = [p \in FsPaths |-> Absent]
    /\ fs0 = fs
    /\ conv = NoConv
    /\ pc = "off"
    /\ steps = <<>>
    /\ faults = {}
    /\ result = "none"
    /\ written = {}
    /\ warned = FALSE
    /\ wm_out = NoWm

\* StyleLoader.__init__: both caches None; the directories as found on disk
InitRegistry ==
    /\ styles_dir \in MetaDirStates(StyleKeys)
    /\ themes_dir \in MetaDirStates(ThemeKeys)
    /\ styles_cache = EmptyCache
    /\ themes_cache = EmptyCache
    /\ compose_out = NoCompose
    /\ reg_out = NoQuery
    /\ RegistryIdle
    /\ ConvIdle
    /\ ToolIdle
    /\ SideIdle

\* the frame of a registry operation: it touches the caches and its outcome
RegistryFrame ==
    /\ UNCHANGED <<styles_dir, themes_dir>>
    /\ UNCHANGED emojiVars
    /\ UNCHANGED convVars
    /\ UNCHANGED toolVars
    /\ UNCHANGED sideVars

DiscoverStyles ==
    LET d == discover_styles(styles_cache, styles_dir)
    IN /\ styles_cache' = d.cache
       /\ reg_out' = [NoQuery EXCEPT !.op = "discover_styles", !.styles = Seen(d)]
       /\ compose_out' = NoCompose
       /\ UNCHANGED themes_cache
       /\ RegistryFrame

DiscoverThemes ==
    LET d == discover_themes(themes_cache, themes_dir)
    IN /\ themes_cache' = d.cache
       /\ reg_out' = [NoQuery EXCEPT !.op = "discover_themes", !.themes = Seen(d)]
       /\ compose_out' = NoCompose
       /\ UNCHANGED styles_cache
       /\ RegistryFrame

ListStyles ==
    LET r == list_available_styles(styles_cache, styles_dir)
    IN /\ styles_cache' = r.cache
       /\ reg_out' = [NoQuery EXCEPT !.op = "list_available_styles",
                                     !.styles = r.seen, !.names = r.ret]
       /\ compose_out' = NoCompose
       /\ UNCHANGED themes_cache
       /\ RegistryFrame

ListThemes ==
    LET r == list_available_themes(themes_cache, themes_dir)
    IN /\ themes_cache' = r.cache
       /\ reg_out' = [NoQuery EXCEPT !.op = "list_available_themes",
                                     !.themes = r.seen, !.names = r.ret]
       /\ compose_out' = NoCompose
       /\ UNCHANGED styles_cache
       /\ RegistryFrame

Validate(style_name, theme_name) ==
    LET r == validate_combination(styles_cache, themes_cache, styles_dir, themes_dir,
                                  style_name, theme_name)
    IN /\ styles_cache' = r.styles_cache
       /\ themes_cache' = r.themes_cache
       /\ reg_out' = [NoQuery EXCEPT !.op = "validate_combination",
                                     !.style = style_name, !.theme = theme_name,
                                     !.styles = r.styles, !.themes = r.themes,
                                     !.valid = r.ret]
       /\ compose_out' = NoCompose
       /\ RegistryFrame

ValidateAny == \E s \in StyleRequests, t \in ThemeRequests : Validate(s, t)

Combinations ==
    LET r == get_available_combinations(styles_cache, themes_cache, styles_dir, themes_dir)
    IN /\ styles_cache' = r.styles_cache
       /\ themes_cache' = r.themes_cache
       /\ reg_out' = [NoQuery EXCEPT !.op = "get_available_combinations",
                                     !.styles = r.styles, !.themes = r.themes,
                                     !.pairs = r.ret]
       /\ compose_out' = NoCompose
       /\ RegistryFrame

Compose(style_name, theme_name) ==
    LET r == combine_style_and_theme(styles_cache, themes_cache, styles_dir, themes_dir,
                                     style_name, theme_name)
    IN /\ styles_cache' = r.styles_cache
       /\ themes_cache' = r.themes_cache
       /\ compose_out' = [called |-> TRUE, style |-> style_name, theme |-> theme_name,
                          status |-> r.status, css |-> r.css, err |-> r.err,
                          styles |-> r.styles, themes |-> r.themes]
       /\ reg_out' = NoQuery
       /\ RegistryFrame

ComposeAny == \E s \in StyleRequests, t \in ThemeRequests : Compose(s, t)

\* any operation of the registry
RegistryCall ==
    \/ DiscoverStyles
    \/ DiscoverThemes
    \/ ListStyles
    \/ ListThemes
    \/ ValidateAny
    \/ Combinations
    \/ ComposeAny

NextRegistry == RegistryCall

SpecRegistry == InitRegistry /\ [][NextRegistry]_vars

(***************************************************************************)
(* The registry while the directories change under it: files are added,    *)
(* removed and rewritten and the directory itself is removed or created    *)
(* between the calls.                                                      *)
(***************************************************************************)
InitRegistryLive ==
    /\ InitRegistry
    /\ styles_dir.unreadable = {}
    /\ themes_dir.unreadable = {}
    /\ styles_dir.uncommented = {}
    /\ themes_dir.uncommented = {}

\* what can happen to a directory between two calls: a file is rewritten,
\* removed or added, the directory is removed or created
Changes(dir, keys) ==
    {[dir EXCEPT !.edited = @ \cup {k}] : k \in dir.files}
    \cup {[dir EXCEPT !.files = @ \ {k}, !.edited = @ \ {k}] : k \in dir.files}
    \cup {[dir EXCEPT !.files = @ \cup {k}] : k \in IF dir.exists THEN keys \ dir.files ELSE {}}
    \cup {IF dir.exists THEN NoDir ELSE [NoDir EXCEPT !.exists = TRUE]}

LiveFrame ==
    /\ UNCHANGED <<styles_cache, themes_cache, compose_out, reg_out>>
    /\ UNCHANGED emojiVars
    /\ UNCHANGED convVars
    /\ UNCHANGED toolVars
    /\ UNCHANGED sideVars

ChangeStyles ==
    /\ styles_dir' \in Changes(styles_dir, StyleKeys) \ {styles_dir}
    /\ UNCHANGED themes_dir
    /\ LiveFrame

ChangeThemes ==
    /\ themes_dir' \in Changes(themes_dir, ThemeKeys) \ {themes_dir}
    /\ UNCHANGED styles_dir
    /\ LiveFrame

NextRegistryLive == RegistryCall \/ ChangeStyles \/ ChangeThemes

SpecRegistryLive == InitRegistryLive /\ [][NextRegistryLive]_vars

(***************************************************************************)
(* Threads converting concurrently: each builds a converter, whose          *)
(* constructor calls style_loader.combine_style_and_theme on the one        *)
(* shared StyleLoader.  A thread is [pc, kind, local, todo, styles,         *)
(* themes, status]: where it is in discover_styles / discover_themes        *)
(* (kind), the dictionary it is filling (local), the files its loop has     *)
(* still to visit (todo), what its two discoveries returned, and how its    *)
(* constructor ended.  Each statement of discover_* is one step.            *)
(***************************************************************************)
Threads == {"t1", "t2"}

\* BaseConverter.__init__ defaults: style 'technical', theme 'default'
RequestOf(kind) == IF kind = "styles" THEN "technical" ELSE "default"

CacheOf(kind) == IF kind = "styles" THEN styles_cache ELSE themes_cache
DirOf(kind) == IF kind = "styles" THEN styles_dir ELSE themes_dir

NewThread == [pc |-> "check", kind |-> "styles", local |-> NoMap, todo |-> {},
              styles |-> NoSeen, themes |-> NoSeen, status |-> "running"]

\* one turn of the loop that also stores the dictionary it is filling
scan_step_publishing(kind, cache, local, key) ==
    LET filled == [k \in DOMAIN local \cup {key} |->
                      IF k = key THEN Descriptor(kind, DirOf(kind), key) ELSE local[k]]
    IN [local |-> filled, cache |-> [populated |-> TRUE, map |-> filled]]

\* one turn of "for css_file in dir.glob('*.css')": the entry is put into the
\* local dictionary; the cache is not touched
scan_step(kind, cache, local, key) ==
    [local |-> [k \in DOMAIN local \cup {key} |->
                   IF k = key THEN Descriptor(kind, DirOf(kind), key) ELSE local[k]],
     cache |-> cache]

InitThreads ==
    /\ styles_dir \in DirStates(StyleKeys)
    /\ themes_dir \in DirStates(ThemeKeys)
    /\ styles_cache = EmptyCache
    /\ themes_cache = EmptyCache
    /\ compose_out = NoCompose
    /\ reg_out = NoQuery
    /\ thr = [t \in Threads |-> NewThread]
    /\ RegistryIdle
    /\ ConvIdle
    /\ ToolIdle
    /\ HeaderIdle
    /\ HighlightIdle
    /\ WordIdle

ThreadFrame ==
    /\ UNCHANGED <<styles_dir, themes_dir, compose_out, reg_out>>
    /\ UNCHANGED <<header_dir, header_out, html_text, highlighted, soup, doc_paragraphs>>
    /\ UNCHANGED emojiVars
    /\ UNCHANGED convVars
    /\ UNCHANGED toolVars

\* the discovery of thread t returns mapping m
DiscoveryReturns(t, m, scanned) ==
    IF thr[t].kind = "styles"
    THEN [thr EXCEPT ![t].pc = "lookup",
                     ![t].styles = [called |-> TRUE, scanned |-> scanned, map |-> m]]
    ELSE [thr EXCEPT ![t].pc = "lookup",
                     ![t].themes = [called |-> TRUE, scanned |-> scanned, map |-> m]]

\* "if self._styles_cache is not None: return self._styles_cache; styles = {}"
TCheck(t) ==
    /\ thr[t].pc = "check"
    /\ thr' = IF CacheOf(thr[t].kind).populated
              THEN DiscoveryReturns(t, CacheOf(thr[t].kind).map, FALSE)
              ELSE [thr EXCEPT ![t].pc = "exists", ![t].local = NoMap]
    /\ UNCHANGED <<styles_cache, themes_cache>>
    /\ ThreadFrame

\* "if not self.styles_dir.exists(): return styles", else the glob starts
TExists(t) ==
    /\ thr[t].pc = "exists"
    /\ thr' = IF ~DirOf(thr[t].kind).exists
              THEN DiscoveryReturns(t, thr[t].local, FALSE)
              ELSE [thr EXCEPT ![t].pc = "scan", ![t].todo = DirOf(thr[t].kind).files]
    /\ UNCHANGED <<styles_cache, themes_cache>>
    /\ ThreadFrame

\* one turn of the loop, for any file the glob has still to yield
TScan(t) ==
    /\ thr[t].pc = "scan"
    /\ \E key \in thr[t].todo :
          LET r == scan_step(thr[t].kind, CacheOf(thr[t].kind), thr[t].local, key)
          IN /\ thr' = [thr EXCEPT ![t].local = r.local, ![t].todo = @ \ {key}]
             /\ IF thr[t].kind = "styles"
                THEN styles_cache' = r.cache /\ UNCHANGED themes_cache
                ELSE themes_cache' = r.cache /\ UNCHANGED styles_cache
    /\ ThreadFrame

\* "self._styles_cache = styles; return styles"
TStore(t) ==
    /\ thr[t].pc = "scan"
    /\ thr[t].todo = {}
    /\ thr' = DiscoveryReturns(t, thr[t].local, TRUE)
    /\ IF thr[t].kind = "styles"
       THEN /\ styles_cache' = [populated |-> TRUE, map |-> thr[t].local]
            /\ UNCHANGED themes_cache
       ELSE /\ themes_cache' = [populated |-> TRUE, map |-> thr[t].local]
            /\ UNCHANGED styles_cache
    /\ ThreadFrame

\* get_style_css / get_theme_css after the discovery: the key is looked up
\* in the mapping returned and the file is read; combine_style_and_theme goes
\* on to the theme after the style
TLookup(t) ==
    /\ thr[t].pc = "lookup"
    /\ LET kind == thr[t].kind
           seen == IF kind = "styles" THEN thr[t].styles ELSE thr[t].themes
       IN thr' = IF \/ RequestOf(kind) \notin DOMAIN seen.map
                    \/ ~FileReadable(DirOf(kind), RequestOf(kind))
                 THEN [thr EXCEPT ![t].pc = "done", ![t].status = "error"]
                 ELSE IF kind = "styles"
                 THEN [thr EXCEPT ![t].pc = "check", ![t].kind = "themes"]
                 ELSE [thr EXCEPT ![t].pc = "done", ![t].status = "ok"]
    /\ UNCHANGED <<styles_cache, themes_cache>>
    /\ ThreadFrame

NextThreads ==
    \E t \in Threads : TCheck(t) \/ TExists(t) \/ TScan(t) \/ TStore(t) \/ TLookup(t)

SpecThreads == InitThreads /\ [][NextThreads]_vars

(***************************************************************************)
(* HEADER COMPOSER  (HeaderProcessor, BaseConverter._create_html_document) *)
(*                                                                         *)
(* The header directory is [exists, logos, md, locked]: the logo           *)
(* extensions for which it holds a file, its Markdown file ("none", or     *)
(* "blank" for one that Markdown turns into the empty string, or "text"),  *)
(* and whether its files refuse to be opened.  HTML and CSS texts are      *)
(* sequences of fragments.                                                 *)
(***************************************************************************)
logo_extensions == <<".png", ".jpg", ".jpeg", ".svg", ".gif">>

mime_type(ext) ==
    CASE ext = ".png" -> "image/png"
      [] ext = ".jpg" -> "image/jpeg"
      [] ext = ".jpeg" -> "image/jpeg"
      [] ext = ".svg" -> "image/svg+xml"
      [] ext = ".gif" -> "image/gif"

NoHeaderDir == [exists |-> FALSE, logos |-> {}, md |-> "none", locked |-> FALSE]

HeaderDirs ==
    {NoHeaderDir} \cup
    [exists : {TRUE}, logos : SUBSET Range(logo_extensions),
     md : {"none", "blank", "text"}, locked : BOOLEAN]

\* process_header_content: (logo_html, text_html), None being <<>>; raised
\* when a file that is there cannot be opened
process_header_content(dir) ==
    IF ~dir.exists THEN [raised |-> FALSE, logo_html |-> <<>>, text_html |-> <<>>]
    ELSE LET found == SelectSeq(logo_extensions, LAMBDA ext : ext \in dir.logos)
             logo_html == IF found = <<>> THEN <<>>
                          ELSE <<"<img src=data:", mime_type(Head(found)), ">">>
             text_html == IF dir.md = "text" THEN <<"<p>header text</p>">> ELSE <<>>
         IN IF dir.locked /\ (found # <<>> \/ dir.md # "none")
            THEN [raised |-> TRUE, logo_html |-> <<>>, text_html |-> <<>>]
            ELSE [raised |-> FALSE, logo_html |-> logo_html, text_html |-> text_html]

generate_header_css == <<"@page { margin-top: 3.5cm } .header-wrapper { ... }">>

\* a header composer that emits the CSS whenever the header is enabled
create_header_css_always(include_header, dir) ==
    LET c == process_header_content(dir)
    IN [raised |-> include_header /\ c.raised, read |-> include_header,
        header_css |-> IF include_header /\ ~c.raised THEN generate_header_css ELSE <<>>,
        header_html |-> IF include_header /\ ~c.raised /\ c.text_html # <<>>
                        THEN <<"<div header-wrapper>">> \o c.text_html \o <<"</div>">>
                        ELSE <<>>]

\* create_header_html: (header_html, header_css), and whether the directory
\* was looked at
create_header_html(include_header, dir) ==
    IF ~include_header
    THEN [raised |-> FALSE, read |-> FALSE, header_html |-> <<>>, header_css |-> <<>>]
    ELSE LET c == process_header_content(dir)
         IN IF c.raised
            THEN [raised |-> TRUE, read |-> TRUE, header_html |-> <<>>, header_css |-> <<>>]
            ELSE IF c.logo_html = <<>> /\ c.text_html = <<>>
            THEN [raised |-> FALSE, read |-> TRUE, header_html |-> <<>>, header_css |-> <<>>]
            ELSE [raised |-> FALSE, read |-> TRUE,
                  header_css |-> generate_header_css,
                  header_html |->
                      <<"<div header-wrapper><div header-container>">>
                      \o (IF c.text_html # <<>>
                          THEN <<"<div header-text>">> \o c.text_html \o <<"</div>">>
                          ELSE <<>>)
                      \o (IF c.logo_html # <<>>
                          THEN (IF c.text_html = <<>>
                                THEN <<"<div header-text></div>">> ELSE <<>>)
                               \o <<"<div header-logo-wrapper>">> \o c.logo_html
                               \o <<"</div>">>
                          ELSE <<>>)
                      \o <<"</div></div>">>]

\* _create_html_document: the assembled document around html_content
create_html_document(include_header, dir, html_content) ==
    LET h == create_header_html(include_header, dir)
    IN [raised |-> h.raised, read |-> h.read,
        header_html |-> h.header_html, header_css |-> h.header_css,
        document |->
            IF h.raised THEN <<>>
            ELSE <<"<html><head><title>", "stem", "</title><style>",
                   "css_styles", "pygments_css">>
                 \o h.header_css
                 \o <<"</style></head><body>">>
                 \o h.header_html
                 \o <<IF include_header THEN "<div class=content has-header>"
                      ELSE "<div class=content>">>
                 \o html_content
                 \o <<"</div></body></html>">>]

HtmlContent == <<"<h1>Title</h1>", "<p>text</p>">>

NoHeader == [called |-> FALSE, include_header |-> FALSE, raised |-> FALSE,
             read |-> FALSE, header_html |-> <<>>, header_css |-> <<>>,
             document |-> <<>>]

RegistryUnused ==
    /\ styles_dir = NoDir
    /\ themes_dir = NoDir
    /\ styles_cache = EmptyCache
    /\ themes_cache = EmptyCache
    /\ compose_out = NoCompose
    /\ reg_out = NoQuery

InitHeader ==
    /\ header_dir \in HeaderDirs
    /\ header_out = NoHeader
    /\ RegistryUnused
    /\ RegistryIdle
    /\ ConvIdle
    /\ ToolIdle
    /\ ThreadsIdle
    /\ HighlightIdle
    /\ WordIdle

\* BaseConverter._create_html_document, header enabled or not
CreateHtmlDocument ==
    /\ \E include_header \in BOOLEAN :
          LET r == create_html_document(include_header, header_dir, HtmlContent)
          IN header_out' = [called |-> TRUE, include_header |-> include_header,
                            raised |-> r.raised, read |-> r.read,
                            header_html |-> r.header_html, header_css |-> r.header_css,
                            document |-> r.document]
    /\ UNCHANGED <<header_dir, thr, html_text, highlighted, soup, doc_paragraphs>>
    /\ UNCHANGED emojiVars
    /\ UNCHANGED registryVars
    /\ UNCHANGED convVars
    /\ UNCHANGED toolVars

NextHeader == CreateHtmlDocument

SpecHeader == InitHeader /\ [][NextHeader]_vars

(***************************************************************************)
(* SYNTAX HIGHLIGHTING  (MarkdownProcessor._highlight_code_blocks)         *)
(*                                                                         *)
(* The HTML is a sequence of tokens: the opening of a code block           *)
(* '<pre><code class="language-NAME">' (or '<pre><code>' with lang ""),    *)
(* the closing '</code></pre>', any other text, and in the output the      *)
(* block '<div class="codehilite"><pre>...</pre></div>' built from a lexer *)
(* and the code it was given.                                              *)
(***************************************************************************)
MaxTokens == 4

\* language names: one Pygments knows, one it does not, and one it does not
\* that is written with a hyphen
Languages == {"python", "nolang", "no-such"}

\* the names that \w+ matches as a whole
WordNames == {"python", "nolang"}

\* get_lexer_by_name(language, stripall=True), TextLexer() when it raises
get_lexer(language) == IF language = "python" THEN "PythonLexer" ELSE "TextLexer"

Token(tag, lang, lexer, code) == [tag |-> tag, lang |-> lang, lexer |-> lexer, code |-> code]
Open(lang) == Token("open", lang, "", <<>>)
Close == Token("close", "", "", <<>>)
OtherText == Token("text", "", "", <<>>)
Codehilite(lexer, code) == Token("codehilite", "", lexer, code)

InputTokens == {Open(l) : l \in Languages \cup {""}} \cup {Close, OtherText}

\* the first position of '</code></pre>' in html, 0 when there is none
FirstClose(html) ==
    IF \E j \in 1..Len(html) : html[j] = Close
    THEN CHOOSE j \in 1..Len(html) :
            html[j] = Close /\ \A i \in 1..(j - 1) : html[i] # Close
    ELSE 0

\* a pattern that matches at every opening, with or without a class
MatchesAnyOpen(tok) == tok.tag = "open"

\* '<pre><code class="language-(\w+)">' matches at an opening whose class
\* is language- followed by word characters only
MatchesPattern(tok) == tok.tag = "open" /\ tok.lang \in WordNames

\* replace_code_block: the block that replaces one match
replace_code_block(language, code) == Codehilite(get_lexer(language), code)

\* re.sub(code_block_pattern, replace_code_block, html_content, DOTALL):
\* leftmost matches, each ending at the first '</code></pre>' after its
\* opening, replaced one after the other; everything else is copied
RECURSIVE highlight_code_blocks(_)
highlight_code_blocks(html) ==
    IF html = <<>> THEN <<>>
    ELSE IF MatchesPattern(Head(html)) /\ FirstClose(html) # 0
    THEN LET j == FirstClose(html)
         IN <<replace_code_block(Head(html).lang, SubSeq(html, 2, j - 1))>>
            \o highlight_code_blocks(SubSeq(html, j + 1, Len(html)))
    ELSE <<Head(html)>> \o highlight_code_blocks(Tail(html))

NoHighlight == [called |-> FALSE, html |-> <<>>]

InitHighlight ==
    /\ html_text \in SeqsOf(InputTokens, 0, MaxTokens)
    /\ highlighted = NoHighlight
    /\ RegistryUnused
    /\ RegistryIdle
    /\ ConvIdle
    /\ ToolIdle
    /\ ThreadsIdle
    /\ HeaderIdle
    /\ WordIdle

HighlightCodeBlocks ==
    /\ ~highlighted.called
    /\ highlighted' = [called |-> TRUE, html |-> highlight_code_blocks(html_text)]
    /\ UNCHANGED <<html_text, thr, header_dir, header_out, soup, doc_paragraphs>>
    /\ UNCHANGED emojiVars
    /\ UNCHANGED registryVars
    /\ UNCHANGED convVars
    /\ UNCHANGED toolVars

NextHighlight == HighlightCodeBlocks

SpecHighlight == InitHighlight /\ [][NextHighlight]_vars

(***************************************************************************)
(* WORD RENDERER  (WordConverter._convert_html_to_word)                    *)
(*                                                                         *)
(* The parsed HTML is the sequence of its elements in document order, each *)
(* [tag, depth]: an element's descendants are the elements that follow it  *)
(* with a greater depth, up to the next element that is not deeper.  A     *)
(* paragraph of the Word document is [style, src], src being the position  *)
(* of the element whose text it holds.                                     *)
(***************************************************************************)
MaxNodes == 4

Headings == {"h1", "h2", "h3", "h4", "h5", "h6"}

\* the names handed to soup.find_all in _process_elements
WalkedTags == Headings \cup {"p", "ul", "ol", "li", "blockquote", "pre", "code"}

\* the tags of the generated documents: one heading, the other walked
\* tags, a script and an element of another kind
InputTags == {"h2", "p", "ul", "ol", "li", "blockquote", "pre", "code", "script", "div"}

\* a parsed document: the first element is at the top, an element is at
\* most one level below the element before it, and a script has no element
\* below it (html.parser keeps the content of a script as text)
IsSoup(d) ==
    /\ d # <<>> => d[1].depth = 0
    /\ \A i \in 1..(Len(d) - 1) :
          /\ d[i + 1].depth <= d[i].depth + 1
          /\ d[i].tag = "script" => d[i + 1].depth <= d[i].depth

\* the descendants and the children of the element at position i
Subtree(d, i) == {j \in (i + 1)..Len(d) : \A k \in (i + 1)..j : d[k].depth > d[i].depth}
Children(d, i) == {j \in Subtree(d, i) : d[j].depth = d[i].depth + 1}

\* _clean_soup: the elements decomposed, script and style with all below them
Decomposed(d) ==
    UNION {{i} \cup Subtree(d, i) : i \in {j \in 1..Len(d) : d[j].tag \in {"script", "style"}}}

\* the positions in S, in document order
RECURSIVE InOrder(_, _)
InOrder(S, n) ==
    IF n = 0 THEN <<>>
    ELSE InOrder(S, n - 1) \o (IF n \in S THEN <<n>> ELSE <<>>)

\* soup.find_all([...]) after _clean_soup: every remaining element with a
\* walked tag, at any depth, in document order
find_all(d) ==
    InOrder({i \in 1..Len(d) \ Decomposed(d) : d[i].tag \in WalkedTags}, Len(d))

\* _apply_style_to_paragraph for the elements _add_text_paragraph is given
apply_style(tag) ==
    CASE tag = "h1" -> "Heading 1"
      [] tag = "h2" -> "Heading 2"
      [] tag = "h3" -> "Heading 3"
      [] tag = "h4" -> "Heading 4"
      [] tag = "h5" -> "Heading 5"
      [] tag = "h6" -> "Heading 6"
      [] tag = "p" -> "Normal"

\* _add_list_elements: one paragraph for each direct li child of the list
add_list_elements(d, i) ==
    LET list_style == IF d[i].tag = "ul" THEN "List Bullet" ELSE "List Number"
        items == InOrder({j \in Children(d, i) : d[j].tag = "li"}, Len(d))
    IN [k \in 1..Len(items) |-> [style |-> list_style, src |-> items[k]]]

\* _process_single_element: the paragraphs added for the element at i
process_single_element(d, i) ==
    IF d[i].tag \in Headings \cup {"p"}
    THEN <<[style |-> apply_style(d[i].tag), src |-> i]>>
    ELSE IF d[i].tag \in {"ul", "ol"} THEN add_list_elements(d, i)
    ELSE IF d[i].tag = "blockquote" THEN <<[style |-> "Quote", src |-> i]>>
    ELSE IF d[i].tag \in {"pre", "code"} THEN <<[style |-> "No Spacing", src |-> i]>>
    ELSE <<>>

\* _process_elements: the loop over find_all
RECURSIVE process_elements(_, _)
process_elements(d, found) ==
    IF found = <<>> THEN <<>>
    ELSE process_single_element(d, Head(found)) \o process_elements(d, Tail(found))

\* _convert_html_to_word: the paragraphs of the document returned
convert_html_to_word(d) == process_elements(d, find_all(d))

NoDoc == [built |-> FALSE, paragraphs |-> <<>>]

InitWord ==
    /\ \E n \in 0..MaxNodes :
          \E tags \in [1..n -> InputTags], depths \in [1..n -> 0..(MaxNodes - 1)] :
             /\ soup = [i \in 1..n |-> [tag |-> tags[i], depth |-> depths[i]]]
             /\ IsSoup(soup)
    /\ doc_paragraphs = NoDoc
    /\ RegistryUnused
    /\ RegistryIdle
    /\ ConvIdle
    /\ ToolIdle
    /\ ThreadsIdle
    /\ HeaderIdle
    /\ HighlightIdle

ConvertHtmlToWord ==
    /\ ~doc_paragraphs.built
    /\ doc_paragraphs' = [built |-> TRUE, paragraphs |-> convert_html_to_word(soup)]
    /\ UNCHANGED <<soup, thr, header_dir, header_out, html_text, highlighted>>
    /\ UNCHANGED emojiVars
    /\ UNCHANGED registryVars
    /\ UNCHANGED convVars
    /\ UNCHANGED toolVars

NextWord == ConvertHtmlToWord

SpecWord == InitWord /\ [][NextWord]_vars

(***************************************************************************)
(* MARKDOWN PIPELINE  (MarkdownProcessor.process_markdown)                 *)
(*                                                                         *)
(* A Markdown text is a sequence of blocks: a heading, a paragraph, a      *)
(* paragraph holding an emoji, a raw HTML code block.  process_markdown    *)
(* builds a Markdown engine, converts the text with it, highlights the     *)
(* code blocks and replaces the emoji.  The repository has the processor   *)
(* twice: md2pdf/core/processors ("package") and processors ("flat").      *)
(***************************************************************************)
MaxBlocks == 2
MaxRuns == 2

Processors == {"p1", "p2"}
Variants == {"package", "flat"}

\* MarkdownProcessor.__init__: the extension list and its configuration
MarkdownProcessor ==
    [extensions |-> {"tables", "fenced_code", "codehilite", "toc", "attr_list",
                     "def_list", "footnotes", "smarty", "nl2br"},
     extension_configs |-> [codehilite |-> "codehilite", toc_permalink |-> TRUE]]

MdBlock(kind, lang, g) == [kind |-> kind, lang |-> lang, g |-> g]
MdBlocks == {MdBlock("heading", "", <<>>), MdBlock("para", "", <<>>),
             MdBlock("emoji", "", <<49, 8419>>), MdBlock("rawcode", "python", <<>>)}

\* the asset directories the runs may find: empty, or holding the keycap
PipelineAssets == {{}, {<<"31", "20e3">>}, {<<"31", "fe0f", "20e3">>}}

\* markdown.Markdown(extensions=..., extension_configs=...): a new engine,
\* its table of heading ids empty
markdown_Markdown(extensions, extension_configs) ==
    [extensions |-> extensions, permalink |-> extension_configs.toc_permalink,
     used_ids |-> {}]

\* toc's unique(): the slug, or the slug with the first unused suffix
unique(id, used_ids) ==
    IF id \notin used_ids THEN id
    ELSE id \o <<CHOOSE n \in 1..(Cardinality(used_ids) + 1) :
                    /\ (id \o <<n>>) \notin used_ids
                    /\ \A m \in 1..(n - 1) : (id \o <<m>>) \in used_ids>>

\* the HTML of one block and the engine after it
convert_block(md, b) ==
    IF b.kind = "heading"
    THEN IF "toc" \in md.extensions
         THEN LET id == unique(<<"intro">>, md.used_ids)
              IN [html |-> <<Token("h1", IF md.permalink THEN "permalink" ELSE "", "", id)>>,
                  md |-> [md EXCEPT !.used_ids = @ \cup {id}]]
         ELSE [html |-> <<Token("h1", "", "", <<>>)>>, md |-> md]
    ELSE IF b.kind = "emoji"
    THEN [html |-> <<Token("emoji", "", "", b.g)>>, md |-> md]
    ELSE IF b.kind = "rawcode"
    THEN [html |-> <<Open(b.lang), OtherText, Close>>, md |-> md]
    ELSE [html |-> <<OtherText>>, md |-> md]

\* md.convert(content)
RECURSIVE convert(_, _)
convert(md, content) ==
    IF content = <<>> THEN [html |-> <<>>, md |-> md]
    ELSE LET first == convert_block(md, Head(content))
             rest == convert(first.md, Tail(content))
         IN [html |-> first.html \o rest.html, md |-> rest.md]

\* emoji.replace_emoji(html_content, replace=replacement)
replace_emoji(assets, html) ==
    [i \in 1..Len(html) |->
        IF html[i].tag = "emoji"
        THEN LET r == replacement(assets, html[i].code)
             IN Token("img", r.kind, "", r.name)
        ELSE html[i]]

\* _replace_emojis_with_images: the import of the emoji library, guarded in
\* the package and bare in the flat processor, then the replacement
replace_emojis_with_images(variant, emoji_lib, assets, html) ==
    IF ~emoji_lib
    THEN IF variant = "package"
         THEN [raised |-> "none", html |-> html]
         ELSE [raised |-> "ImportError", html |-> <<>>]
    ELSE [raised |-> "none", html |-> replace_emoji(assets, html)]

\* a process_markdown that uses up the toc extension of its processor
process_markdown_consuming(self, variant, emoji_lib, assets, content) ==
    LET md == markdown_Markdown(self.extensions, self.extension_configs)
        html == highlight_code_blocks(convert(md, content).html)
        e == replace_emojis_with_images(variant, emoji_lib, assets, html)
    IN [self |-> [self EXCEPT !.extensions = @ \ {"toc"}],
        highlighted |-> html, html |-> e.html, raised |-> e.raised]

\* process_markdown(content): a local engine, the three steps, no
\* assignment to self
process_markdown(self, variant, emoji_lib, assets, content) ==
    LET md == markdown_Markdown(self.extensions, self.extension_configs)
        html == highlight_code_blocks(convert(md, content).html)
        e == replace_emojis_with_images(variant, emoji_lib, assets, html)
    IN [self |-> self, highlighted |-> html, html |-> e.html, raised |-> e.raised]

NoProcessors == [p \in {} |-> MarkdownProcessor]

InitPipeline ==
    /\ \E variant \in Variants, emoji_lib \in BOOLEAN, assets \in PipelineAssets,
          n \in 1..MaxBlocks :
         \E content \in [1..n -> MdBlocks] :
            mdp = [variant |-> variant, emoji_lib |-> emoji_lib, assets |-> assets,
                   content |-> content, procs |-> NoProcessors, runs |-> <<>>]
    /\ RegistryUnused
    /\ RegistryIdle
    /\ ConvIdle
    /\ SideIdle
    /\ CliIdle
    /\ WorkflowIdle

PipelineFrame ==
    /\ UNCHANGED <<cli, wf>>
    /\ UNCHANGED emojiVars
    /\ UNCHANGED registryVars
    /\ UNCHANGED convVars
    /\ UNCHANGED sideVars

\* MarkdownProcessor()
NewMarkdownProcessor(p) ==
    /\ p \notin DOMAIN mdp.procs
    /\ mdp' = [mdp EXCEPT !.procs = [q \in DOMAIN mdp.procs \cup {p} |->
                                        IF q = p THEN MarkdownProcessor ELSE mdp.procs[q]]]
    /\ PipelineFrame

\* p.process_markdown(content)
ProcessMarkdown(p) ==
    /\ p \in DOMAIN mdp.procs
    /\ Len(mdp.runs) < MaxRuns
    /\ LET r == process_markdown(mdp.procs[p], mdp.variant, mdp.emoji_lib, mdp.assets,
                                 mdp.content)
       IN mdp' = [mdp EXCEPT !.procs[p] = r.self,
                             !.runs = Append(@, [proc |-> p, highlighted |-> r.highlighted,
                                                 html |-> r.html, raised |-> r.raised])]
    /\ PipelineFrame

NextPipeline ==
    \/ \E p \in Processors : NewMarkdownProcessor(p)
    \/ \E p \in Processors : ProcessMarkdown(p)

SpecPipeline == InitPipeline /\ [][NextPipeline]_vars

(***************************************************************************)
(* COMMAND LINE  (md2pdf convert, md2pdf batch)                            *)
(*                                                                         *)
(* A path is [dir, stem, suffix].  An invocation is the command with its   *)
(* options and the files found; convert loops over its input paths, builds *)
(* and runs one converter per path, counts and exits.                      *)
(***************************************************************************)
MaxFiles == 3

FilePath(dir, stem, suffix) == [dir |-> dir, stem |-> stem, suffix |-> suffix]

\* the Markdown files an invocation may name
CliInputs == {FilePath("in", "a", ".md"), FilePath("in", "b", ".md"),
              FilePath("other", "a", ".md")}

\* what building and running one converter can end in
Outcomes == {"True", "False", "raise"}

NoOption == [given |-> FALSE, path |-> FilePath("", "", "")]
Option(path) == [given |-> TRUE, path |-> path]

\* _get_converter_class(format)[1]
default_ext(format) == IF format = "pdf" THEN ".pdf" ELSE ".docx"

\* _get_input_files: the arguments, or the *.md files of "." when none
get_input_files(input_files, cwd) == IF input_files = <<>> THEN cwd ELSE input_files

\* _process_single_file: the output path handed to the converter, -o or
\* input_path.with_suffix(default_ext)
process_single_file(input_path, output, ext) ==
    IF output.given THEN output.path ELSE [input_path EXCEPT !.suffix = ext]

\* a loop body that leaves an exception uncounted
count_returns_only(outcome, successful, failed) ==
    [successful |-> IF outcome = "True" THEN successful + 1 ELSE successful,
     failed |-> IF outcome = "False" THEN failed + 1 ELSE failed]

\* the body of "for input_path in input_paths": True counts as successful,
\* False and any exception as failed
count(outcome, successful, failed) ==
    [successful |-> IF outcome = "True" THEN successful + 1 ELSE successful,
     failed |-> IF outcome \in {"False", "raise"} THEN failed + 1 ELSE failed]

InitCli ==
    /\ \E command \in {"convert", "batch"}, format \in {"pdf", "word"},
          n \in 0..MaxFiles, opt \in BOOLEAN, there \in BOOLEAN, cwd \in BOOLEAN :
         \E files \in [1..n -> CliInputs] :
            \* batch: the files globbed in "in", each once, and -o names a directory
            /\ command = "batch" =>
                  /\ \A k \in 1..n : files[k].dir = "in"
                  /\ \A k \in 1..n, l \in 1..n : files[k] = files[l] => k = l
                  /\ ~cwd
            \* convert: -o names a file; "." matters when no file is named
            /\ command = "convert" => (~there /\ (cwd => n = 0))
            /\ there => opt
            /\ cli = [command |-> command, format |-> format, files |-> files,
                      cwd |-> IF cwd THEN <<FilePath(".", "a", ".md")>> ELSE <<>>,
                      output |-> IF command = "convert" /\ opt
                                 THEN Option(FilePath("out", "result", ".pdf"))
                                 ELSE NoOption,
                      output_directory |-> IF command = "batch" /\ opt
                                           THEN Option(FilePath("D", "", ""))
                                           ELSE NoOption,
                      dirs |-> {"in", "other", "."} \cup (IF there THEN {"D"} ELSE {}),
                      pc |-> command, input_paths |-> <<>>, i |-> 1,
                      successful |-> 0, failed |-> 0, calls |-> <<>>,
                      exit_code |-> "none"]
    /\ RegistryUnused
    /\ RegistryIdle
    /\ ConvIdle
    /\ SideIdle
    /\ PipelineIdle
    /\ WorkflowIdle

CliFrame ==
    /\ UNCHANGED <<mdp, wf>>
    /\ UNCHANGED emojiVars
    /\ UNCHANGED registryVars
    /\ UNCHANGED convVars
    /\ UNCHANGED sideVars

\* batch(): glob, exit 1 when nothing is found, mkdir of the output
\* directory, then ctx.invoke(convert, input_files=..., output=None, ...)
Batch ==
    /\ cli.pc = "batch"
    /\ IF cli.files = <<>>
       THEN cli' = [cli EXCEPT !.pc = "exited", !.exit_code = "1"]
       ELSE cli' = [cli EXCEPT !.pc = "convert",
                               !.output = NoOption,
                               !.dirs = IF cli.output_directory.given
                                        THEN @ \cup {cli.output_directory.path.dir}
                                        ELSE @]
    /\ CliFrame

\* convert() up to its loop: the input paths, -o dropped for several files
Convert ==
    /\ cli.pc = "convert"
    /\ LET input_paths == get_input_files(cli.files, cli.cwd)
       IN IF input_paths = <<>>
          THEN cli' = [cli EXCEPT !.pc = "exited", !.exit_code = "1"]
          ELSE cli' = [cli EXCEPT !.pc = "loop", !.input_paths = input_paths,
                                  !.output = IF @.given /\ Len(input_paths) > 1
                                             THEN NoOption ELSE @,
                                  !.i = 1, !.successful = 0, !.failed = 0]
    /\ CliFrame

\* one turn of the loop: _process_single_file builds the converter and runs
\* it; it returns True or False, or an exception reaches the except clause
ProcessSingleFile(outcome) ==
    /\ cli.pc = "loop"
    /\ cli.i <= Len(cli.input_paths)
    /\ LET input_path == cli.input_paths[cli.i]
           output_path == process_single_file(input_path, cli.output,
                                              default_ext(cli.format))
           c == count(outcome, cli.successful, cli.failed)
       IN cli' = [cli EXCEPT !.calls = Append(@, [input_file |-> input_path,
                                                  output_file |-> output_path,
                                                  outcome |-> outcome]),
                             !.successful = c.successful,
                             !.failed = c.failed,
                             !.i = @ + 1]
    /\ CliFrame

\* the summary and sys.exit(0 if failed == 0 else 1)
Summary ==
    /\ cli.pc = "loop"
    /\ cli.i > Len(cli.input_paths)
    /\ cli' = [cli EXCEPT !.pc = "exited",
                          !.exit_code = IF cli.failed = 0 THEN "0" ELSE "1"]
    /\ CliFrame

NextCli ==
    \/ Batch
    \/ Convert
    \/ \E outcome \in Outcomes : ProcessSingleFile(outcome)
    \/ Summary

SpecCli == InitCli /\ [][NextCli]_vars

(***************************************************************************)
(* FOLDER WORKFLOW  (WorkflowProcessor.process_files)                      *)
(*                                                                         *)
(* A file name is [stem, suffix], the stem being its parts between         *)
(* underscores: doc_1.md is [<<"doc", "1">>, ".md"].  A folder is the set  *)
(* of the names in it.  process_files loops over the Markdown files of the *)
(* input folder, converts each into the output folder and moves the        *)
(* converted ones to the processed folder.                                 *)
(***************************************************************************)
Name(stem, suffix) == [stem |-> stem, suffix |-> suffix]

\* str(counter) for the counters get_unique_filename goes through
Digits == <<"1", "2", "3", "4", "5">>

\* the style and theme of the run
WorkflowStyle == "technical"
WorkflowTheme == "default"

InputNames == {Name(<<"doc">>, ".md"), Name(<<"doc", "1">>, ".md")}

ProcessedNames == {Name(<<"doc">>, ".md"), Name(<<"doc", "1">>, ".md"),
                   Name(<<"doc", "2">>, ".md")}

OutputNames == {Name(<<"doc", "technical", "default">>, ""),
                Name(<<"doc", "technical", "default">>, ".pdf"),
                Name(<<"doc", "technical", "default", "1">>, ".pdf"),
                Name(<<"doc", "1", "technical", "default">>, ".pdf")}

\* a get_unique_filename that returns the plain name, taken or not
get_plain_filename(file_path, target_dir) == file_path

\* get_unique_filename: the name itself, or the first <stem>_<counter> that
\* the target folder does not hold
get_unique_filename(file_path, target_dir) ==
    IF file_path \notin target_dir THEN file_path
    ELSE LET candidate(n) == Name(file_path.stem \o <<Digits[n]>>, file_path.suffix)
             counter == CHOOSE n \in 1..Len(Digits) :
                            /\ candidate(n) \notin target_dir
                            /\ \A m \in 1..(n - 1) : candidate(m) \in target_dir
         IN candidate(counter)

\* the output path process_files hands to the converter factory
workflow_output_path(input_file, output_folder) ==
    LET output_path == Name(input_file.stem \o <<WorkflowStyle, WorkflowTheme>>, "")
    IN IF output_path \in output_folder
       THEN get_unique_filename(output_path, output_folder)
       ELSE output_path

\* the file PDFConverter.convert() writes for that output path
pdf_output_file(output_path) ==
    IF Lower(output_path.suffix) # ".pdf"
    THEN Name(output_path.stem, ".pdf")
    ELSE output_path

InitWorkflow ==
    /\ \E input \in SUBSET InputNames, output \in SUBSET OutputNames,
          processed \in SUBSET ProcessedNames, n \in 0..Cardinality(InputNames) :
         \E markdown_files \in [1..n -> InputNames] :
            \* glob lists every file of the folder once, in some order
            /\ Range(markdown_files) = input
            /\ n = Cardinality(input)
            /\ wf = [input |-> input, output |-> output, processed |-> processed,
                     input0 |-> input, processed0 |-> processed,
                     markdown_files |-> markdown_files, pc |-> "start", i |-> 1,
                     success_count |-> 0, returned |-> 0, log |-> <<>>]
    /\ RegistryUnused
    /\ RegistryIdle
    /\ ConvIdle
    /\ SideIdle
    /\ PipelineIdle
    /\ CliIdle

WorkflowFrame ==
    /\ UNCHANGED <<mdp, cli>>
    /\ UNCHANGED emojiVars
    /\ UNCHANGED registryVars
    /\ UNCHANGED convVars
    /\ UNCHANGED sideVars

\* process_files up to its loop: return 0 when the folder has no file
ProcessFiles ==
    /\ wf.pc = "start"
    /\ IF wf.markdown_files = <<>>
       THEN wf' = [wf EXCEPT !.pc = "returned", !.returned = 0]
       ELSE wf' = [wf EXCEPT !.pc = "loop", !.i = 1, !.success_count = 0]
    /\ WorkflowFrame

\* one turn of the loop: the output path, the converter from the factory,
\* convert(), and for True the move to the processed folder.  The factory
\* may raise (ValueError of the constructor), which ends process_files.
ConvertFile(outcome) ==
    /\ wf.pc = "loop"
    /\ wf.i <= Len(wf.markdown_files)
    /\ LET input_file == wf.markdown_files[wf.i]
           output_path == workflow_output_path(input_file, wf.output)
           output_file == pdf_output_file(output_path)
           processed_path == get_unique_filename(input_file, wf.processed)
           entry == [input_file |-> input_file, output_path |-> output_path,
                     output_file |-> output_file, outcome |-> outcome,
                     overwrote_output |-> outcome = "True" /\ output_file \in wf.output,
                     moved |-> outcome = "True", processed_path |-> processed_path,
                     overwrote_processed |-> outcome = "True"
                                               /\ processed_path \in wf.processed]
       IN IF outcome = "raise"
          THEN wf' = [wf EXCEPT !.pc = "raised", !.log = Append(@, entry)]
          ELSE IF outcome = "True"
          THEN wf' = [wf EXCEPT !.output = @ \cup {output_file},
                                !.input = @ \ {input_file},
                                !.processed = @ \cup {processed_path},
                                !.success_count = @ + 1,
                                !.i = @ + 1,
                                !.log = Append(@, entry)]
          ELSE wf' = [wf EXCEPT !.i = @ + 1, !.log = Append(@, entry)]
    /\ WorkflowFrame

\* return success_count
ReturnCount ==
    /\ wf.pc = "loop"
    /\ wf.i > Len(wf.markdown_files)
    /\ wf' = [wf EXCEPT !.pc = "returned", !.returned = wf.success_count]
    /\ WorkflowFrame

NextWorkflow ==
    \/ ProcessFiles
    \/ \E outcome \in Outcomes : ConvertFile(outcome)
    \/ ReturnCount

SpecWorkflow == InitWorkflow /\ [][NextWorkflow]_vars

EmojiIdle ==
    /\ styles_dir = NoDir
    /\ themes_dir = NoDir
    /\ styles_cache = EmptyCache
    /\ themes_cache = EmptyCache
    /\ compose_out = NoCompose
    /\ reg_out = NoQuery
    /\ ConvIdle
    /\ ToolIdle
    /\ SideIdle

InitEmoji ==
    /\ grapheme \in Graphemes
    /\ svg_dir \in SUBSET AssetNames(grapheme)
    /\ emoji_src = NoSrc
    /\ EmojiIdle

\* emoji.replace_emoji calls replacement once for the cluster
ReplaceEmoji ==
    /\ ~emoji_src.called
    /\ emoji_src' = replacement(svg_dir, grapheme)
    /\ UNCHANGED <<grapheme, svg_dir>>
    /\ UNCHANGED registryVars
    /\ UNCHANGED convVars
    /\ UNCHANGED toolVars
    /\ UNCHANGED sideVars

NextEmoji == ReplaceEmoji

SpecEmoji == InitEmoji /\ [][NextEmoji]_vars

(***************************************************************************)
(* One conversion: construction, convert(), then extract_watermark.        *)
(***************************************************************************)
Libs == [weasyprint : BOOLEAN, pypdf : BOOLEAN, xmp_api : BOOLEAN]

StandardStyles == [exists |-> TRUE, files |-> StyleKeys, unreadable |-> {}, edited |-> {},
                   uncommented |-> {}]
StandardThemes == [exists |-> TRUE, files |-> ThemeKeys, unreadable |-> {}, edited |-> {},
                   uncommented |-> {}]

Init ==
    /\ lib \in Libs
    /\ \E input \in {Absent, Markdown}, old \in {Absent} \cup OldPdfs :
          fs = [p \in FsPaths |-> IF p = InputPath THEN input ELSE old]
    /\ fs0 = fs
    /\ conv = NoConv
    /\ pc = "new"
    /\ steps = <<>>
    /\ faults = {}
    /\ result = "none"
    /\ written = {}
    /\ warned = FALSE
    /\ wm_out = NoWm
    /\ styles_dir = StandardStyles
    /\ themes_dir = StandardThemes
    /\ styles_cache = EmptyCache
    /\ themes_cache = EmptyCache
    /\ compose_out = NoCompose
    /\ reg_out = NoQuery
    /\ RegistryIdle
    /\ SideIdle
    /\ ToolIdle

\* BaseConverter.__init__ (called through PDFConverter / WordConverter)
Construct(fmt, out, style, theme, hdr, wm) ==
    LET gen == generate_output_path(fmt, InputPath)
        r == combine_style_and_theme(styles_cache, themes_cache, styles_dir, themes_dir,
                                     style, theme)
    IN /\ pc = "new"
       /\ styles_cache' = r.styles_cache
       /\ themes_cache' = r.themes_cache
       /\ compose_out' = [called |-> TRUE, style |-> style, theme |-> theme,
                          status |-> r.status, css |-> r.css, err |-> r.err,
                          styles |-> r.styles, themes |-> r.themes]
       /\ IF (~out.given /\ ~gen.ok) \/ r.status = "error"
          THEN /\ pc' = "ctor_raised"
               /\ conv' = conv
          ELSE /\ pc' = "constructed"
               /\ conv' = [built |-> TRUE, fmt |-> fmt, input_file |-> InputPath,
                           output_arg |-> out,
                           output_file |-> IF out.given THEN out.path ELSE gen.path,
                           watermark |-> wm, include_header |-> hdr,
                           css_styles |-> r.css]
       /\ UNCHANGED <<lib, fs, fs0, steps, faults, result, written, warned, wm_out>>
       /\ UNCHANGED <<styles_dir, themes_dir, reg_out>>
       /\ UNCHANGED emojiVars
       /\ UNCHANGED toolVars
       /\ UNCHANGED sideVars

ConstructAny ==
    \E fmt \in {"pdf", "word"}, out \in OutputArgs, style \in {"technical", "nosuch"},
       hdr \in BOOLEAN, wm \in WatermarkArgs :
        Construct(fmt, out, style, "default", hdr, wm)

\* the frame of every step of convert()
ConvertFrame ==
    /\ UNCHANGED <<lib, fs0, wm_out>>
    /\ UNCHANGED registryVars
    /\ UNCHANGED emojiVars
    /\ UNCHANGED toolVars
    /\ UNCHANGED sideVars

\* a step of convert() that touches no file: it runs, succeeds or raises
PureStep(at, name, next_pc) ==
    /\ pc = at
    /\ \E ok \in BOOLEAN :
          /\ pc' = after_step(ok, next_pc).pc
          /\ result' = after_step(ok, next_pc).result
          /\ faults' = IF ok THEN faults ELSE faults \cup {name}
    /\ steps' = Append(steps, name)
    /\ UNCHANGED <<fs, conv, written, warned>>
    /\ ConvertFrame

\* convert(): the WEASYPRINT_AVAILABLE test of PDFConverter, before the try
ConvertBegin ==
    /\ pc = "constructed"
    /\ IF conv.fmt = "pdf" /\ ~lib.weasyprint
       THEN pc' = "returned" /\ result' = "False"
       ELSE pc' = "ensure_ext" /\ result' = result
    /\ UNCHANGED <<fs, conv, steps, faults, written, warned>>
    /\ ConvertFrame

\* self.output_file = self._ensure_pdf_extension(self.output_file)
EnsureExtension ==
    LET r == IF conv.fmt = "pdf" THEN ensure_pdf_extension(conv.output_file)
             ELSE ensure_docx_extension(conv.output_file)
    IN /\ pc = "ensure_ext"
       /\ pc' = after_step(r.ok, "read").pc
       /\ result' = after_step(r.ok, "read").result
       /\ faults' = IF r.ok THEN faults ELSE faults \cup {"ensure_ext"}
       /\ conv' = [conv EXCEPT !.output_file = r.path]
       /\ UNCHANGED <<fs, steps, written, warned>>
       /\ ConvertFrame

\* markdown_content = self._read_markdown_content()
ReadMarkdown ==
    /\ pc = "read"
    /\ \E io_ok \in BOOLEAN :
          LET ok == read_markdown_content(fs, conv.input_file, io_ok)
          IN /\ pc' = after_step(ok, "transform").pc
             /\ result' = after_step(ok, "transform").result
             /\ faults' = IF ok THEN faults ELSE faults \cup {"read"}
    /\ steps' = Append(steps, "read")
    /\ UNCHANGED <<fs, conv, written, warned>>
    /\ ConvertFrame

\* process_markdown: md.convert(content)
Transform == PureStep("transform", "transform", "highlight")

\* process_markdown: self._highlight_code_blocks(html)
Highlight == PureStep("highlight", "highlight", "emoji")

\* process_markdown: self._replace_emojis_with_images(html); PDFConverter
\* goes on to _create_html_document, WordConverter to _convert_html_to_word
ReplaceEmojis ==
    PureStep("emoji", "emoji", IF conv.fmt = "pdf" THEN "assemble" ELSE "render")

\* html_document = self._create_html_document(html_content)   (PDF only)
Assemble == PureStep("assemble", "assemble", "render")

\* PDF:  HTML(string=html_document, base_url=base_url).write_pdf(output_file)
\* Word: self._convert_html_to_word(html_content); doc.save(output_file)
\* The step raises before the file is opened, or after a part of it was
\* written, or completes.
Render ==
    LET out == conv.output_file
        done == IF conv.fmt = "pdf" THEN Pdf(NoText, NoText) ELSE Docx
        next_pc == IF conv.fmt = "pdf" /\ WatermarkTruthy(conv.watermark)
                   THEN "wm_lib" ELSE "success"
    IN /\ pc = "render"
       /\ steps' = Append(steps, "render")
       /\ \/ /\ fs' = [fs EXCEPT ![out] = done]
             /\ written' = written \cup {out}
             /\ pc' = after_step(TRUE, next_pc).pc
             /\ result' = after_step(TRUE, next_pc).result
             /\ faults' = faults
          \/ /\ \/ fs' = fs /\ written' = written
                \/ fs' = [fs EXCEPT ![out] = Partial] /\ written' = written \cup {out}
             /\ pc' = after_step(FALSE, next_pc).pc
             /\ result' = after_step(FALSE, next_pc).result
             /\ faults' = faults \cup {"render"}
       /\ UNCHANGED <<conv, warned>>
       /\ ConvertFrame

\* the frame of every step of _embed_watermark()
EmbedFrame ==
    /\ UNCHANGED <<conv, result>>
    /\ ConvertFrame

\* _embed_watermark: if not PYPDF_AVAILABLE: warning, return
EmbedCheckLib ==
    /\ pc = "wm_lib"
    /\ IF lib.pypdf
       THEN pc' = "wm_read" /\ warned' = warned /\ faults' = faults
       ELSE pc' = "success" /\ warned' = TRUE /\ faults' = faults \cup {"wm_lib"}
    /\ UNCHANGED <<fs, steps, written>>
    /\ EmbedFrame

\* a step of the try block of _embed_watermark that writes no file: on an
\* exception the except clause prints the warning and the method returns
EmbedStep(at, name, next_pc) ==
    /\ pc = at
    /\ \E ok \in BOOLEAN :
          IF ok THEN pc' = next_pc /\ warned' = warned /\ faults' = faults
          ELSE pc' = "success" /\ warned' = TRUE /\ faults' = faults \cup {name}
    /\ steps' = Append(steps, name)
    /\ UNCHANGED <<fs, written>>
    /\ EmbedFrame

\* reader = PdfReader(str(self.output_file)); writer = PdfWriter()
EmbedRead == EmbedStep("wm_read", "wm_read", "wm_copy")

\* for page in reader.pages: writer.add_page(page)
EmbedCopyPages == EmbedStep("wm_copy", "wm_copy", "wm_meta")

\* writer.add_metadata({... "/MD2PDF_Watermark": self.watermark})
EmbedAddMetadata ==
    EmbedStep("wm_meta", "wm_meta", IF lib.xmp_api THEN "wm_xmp" ELSE "wm_write")

\* if hasattr(writer, "add_metadata_stream"): writer.add_metadata_stream(xmp)
EmbedXmp == EmbedStep("wm_xmp", "wm_xmp", "wm_write")

\* with open(self.output_file, "wb") as output_pdf: writer.write(output_pdf)
\* open() raises and the file stays as it was, or open() has truncated the
\* file and write() raises, or the document is written.
EmbedRewrite ==
    LET out == conv.output_file
    IN /\ pc = "wm_write"
       /\ steps' = Append(steps, "wm_write")
       /\ pc' = "success"
       /\ \/ /\ fs' = [fs EXCEPT ![out] = watermarked_pdf(lib, conv.watermark)]
             /\ written' = written \cup {out}
             /\ warned' = warned
             /\ faults' = faults
          \/ /\ fs' = fs
             /\ written' = written
             /\ warned' = TRUE
             /\ faults' = faults \cup {"wm_open"}
          \/ /\ fs' = [fs EXCEPT ![out] = Partial]
             /\ written' = written \cup {out}
             /\ warned' = TRUE
             /\ faults' = faults \cup {"wm_write"}
       /\ EmbedFrame

\* print("Successfully created ..."); return True
ConvertSuccess ==
    /\ pc = "success"
    /\ pc' = "returned"
    /\ result' = "True"
    /\ UNCHANGED <<fs, conv, steps, faults, written, warned>>
    /\ ConvertFrame

\* extract_watermark(str(output_file)) after the conversion
ExtractWatermark ==
    /\ pc = "returned"
    /\ conv.output_file \in FsPaths
    /\ \E read_ok \in BOOLEAN :
          wm_out' = extract_watermark(lib, fs, conv.output_file, read_ok)
    /\ pc' = "extracted"
    /\ UNCHANGED <<lib, fs, fs0, conv, steps, faults, result, written, warned>>
    /\ UNCHANGED registryVars
    /\ UNCHANGED emojiVars
    /\ UNCHANGED toolVars
    /\ UNCHANGED sideVars

Next ==
    \/ ConstructAny
    \/ ConvertBegin
    \/ EnsureExtension
    \/ ReadMarkdown
    \/ Transform
    \/ Highlight
    \/ ReplaceEmojis
    \/ Assemble
    \/ Render
    \/ EmbedCheckLib
    \/ EmbedRead
    \/ EmbedCopyPages
    \/ EmbedAddMetadata
    \/ EmbedXmp
    \/ EmbedRewrite
    \/ ConvertSuccess
    \/ ExtractWatermark

Spec == Init /\ [][Next]_vars

(***************************************************************************)
(* Claims about the emoji resolver (checked under SpecEmoji).              *)
(***************************************************************************)
\* The candidate list as the specification words it: six entries in order,
\* the conditional ones present only under their condition.
ListedEntries(s) ==
    <<s, parts_no_fe(s)>>
    \o (IF Contains(s, "fe0e") THEN <<swapped(s)>> ELSE <<>>)
    \o (IF ~Contains(s, "fe0f") THEN <<s \o <<"fe0f">>>> ELSE <<>>)
    \o (IF ~Contains(s, "fe0f") THEN <<InsertAt(s, 1, "fe0f")>> ELSE <<>>)
    \o (IF s[Len(s)] = "20e3" /\ ~Contains(ButLast(s), "fe0f")
        THEN <<InsertAt(s, Len(s) - 1, "fe0f")>> ELSE <<>>)

\* raw with every empty entry and every entry equal to an earlier one dropped
RECURSIVE KeepFirsts(_, _)
KeepFirsts(raw, i) ==
    IF i > Len(raw) THEN <<>>
    ELSE IF raw[i] = <<>> \/ (\E j \in 1..(i - 1) : raw[j] = raw[i])
         THEN KeepFirsts(raw, i + 1)
         ELSE <<raw[i]>> \o KeepFirsts(raw, i + 1)

ClaimedCandidates(s) == KeepFirsts(ListedEntries(s), 1)

NoDuplicates(s) == \A i, j \in 1..Len(s) : s[i] = s[j] => i = j

\* C5: the candidate list of a cluster is exactly the six listed entries in
\* their order, later duplicates dropped; it holds no duplicate and no empty
\* entry.
C5_CandidateList ==
    emoji_src.called =>
        /\ emoji_src.cands = ClaimedCandidates(to_twemoji_codepoints(grapheme))
        /\ NoDuplicates(emoji_src.cands)
        /\ ~Contains(emoji_src.cands, <<>>)

\* a keycap cluster "31-20e3": the stripped entry and the keycap entry repeat
\* earlier ones and are dropped, three candidates remain
C5_Witness ==
    /\ emoji_src.called
    /\ grapheme = <<49, 8419>>
    /\ emoji_src.cands = <<<<"31", "20e3">>, <<"31", "20e3", "fe0f">>,
                           <<"31", "fe0f", "20e3">>>>

\* the FE0F-appended variant of a cluster that holds no fe0f
Fe0fAppended(g) == to_twemoji_codepoints(g) \o <<"fe0f">>

\* C6: when some candidate has a local file, the emitted source is the local
\* path of the first such candidate in list order; with the exact name absent
\* and the FE0F-appended variant present the source is local, never the CDN,
\* and it is the appended variant when no earlier candidate is present.
C6_FirstLocalWins ==
    LET cl == ClaimedCandidates(to_twemoji_codepoints(grapheme))
        present == {i \in 1..Len(cl) : cl[i] \in svg_dir}
    IN emoji_src.called =>
        /\ present # {} =>
              /\ emoji_src.kind = "local"
              /\ \E i \in present :
                    /\ \A j \in present : i <= j
                    /\ emoji_src.name = cl[i]
        /\ (/\ ~Contains(to_twemoji_codepoints(grapheme), "fe0f")
            /\ to_twemoji_codepoints(grapheme) \notin svg_dir
            /\ Fe0fAppended(grapheme) \in svg_dir) =>
              /\ emoji_src.kind = "local"
              /\ (\A i \in present : cl[i] = Fe0fAppended(grapheme) \/
                      \E j \in 1..Len(cl) : cl[j] = Fe0fAppended(grapheme) /\ j < i)
                   => emoji_src.name = Fe0fAppended(grapheme)

\* exact name absent, appended variant and a later candidate both present:
\* the appended variant is emitted
C6_Witness ==
    /\ emoji_src.called
    /\ to_twemoji_codepoints(grapheme) \notin svg_dir
    /\ Fe0fAppended(grapheme) \in svg_dir
    /\ Cardinality(svg_dir \cap Range(emoji_src.cands)) >= 2
    /\ emoji_src.kind = "local"
    /\ emoji_src.name = Fe0fAppended(grapheme)

\* C7: the source is the CDN URL exactly when no candidate exists locally,
\* and the URL is then built from the first candidate, the exact string.
C7_CdnOnlyWhenNoLocal ==
    LET cl == ClaimedCandidates(to_twemoji_codepoints(grapheme))
    IN emoji_src.called =>
        /\ emoji_src.kind = "cdn" <=> (\A i \in 1..Len(cl) : cl[i] \notin svg_dir)
        /\ emoji_src.kind = "cdn" =>
              /\ emoji_src.name = cl[1]
              /\ emoji_src.name = to_twemoji_codepoints(grapheme)

\* the directory holds files, none of them a candidate; several candidates
\* exist, the URL uses the first
C7_Witness ==
    /\ emoji_src.called
    /\ emoji_src.kind = "cdn"
    /\ svg_dir # {}
    /\ Len(emoji_src.cands) >= 3
    /\ emoji_src.name = emoji_src.cands[1]

(***************************************************************************)
(* Claims about the registry (checked under SpecRegistry).                 *)
(***************************************************************************)
\* the keys a scan of the directory finds
Discovered(dir) == IF dir.exists THEN dir.files ELSE {}

\* C2: whenever the style key is not a discovered style or the theme key is
\* not a discovered theme, compose raises a not-found error that names the
\* requested key that is missing and lists the available keys of that kind,
\* and returns no CSS.
C2_NotFoundNamesMissingKey ==
    (/\ compose_out.called
     /\ \/ compose_out.style \notin Discovered(styles_dir)
        \/ compose_out.theme \notin Discovered(themes_dir))
    => /\ compose_out.status = "error"
       /\ compose_out.css = <<>>
       /\ \/ /\ compose_out.err.kind = "style_not_found"
             /\ compose_out.err.key = compose_out.style
             /\ compose_out.style \notin Discovered(styles_dir)
             /\ compose_out.err.available = Discovered(styles_dir)
          \/ /\ compose_out.err.kind = "theme_not_found"
             /\ compose_out.err.key = compose_out.theme
             /\ compose_out.theme \notin Discovered(themes_dir)
             /\ compose_out.err.available = Discovered(themes_dir)

\* What the code does guarantee: a missing key always makes compose raise and
\* return no CSS, and the error is the not-found error of a missing key unless
\* the style was discovered and its file could not be read.
C2_ErrorUnlessStyleReadFails ==
    (/\ compose_out.called
     /\ \/ compose_out.style \notin Discovered(styles_dir)
        \/ compose_out.theme \notin Discovered(themes_dir))
    => /\ compose_out.status = "error"
       /\ compose_out.css = <<>>
       /\ \/ compose_out.err.kind = "style_read"
          \/ /\ compose_out.err.kind = "style_not_found"
             /\ compose_out.err.key = compose_out.style
             /\ compose_out.err.available = Discovered(styles_dir)
          \/ /\ compose_out.err.kind = "theme_not_found"
             /\ compose_out.err.key = compose_out.theme
             /\ compose_out.err.available = Discovered(themes_dir)
       /\ compose_out.err.kind = "style_read" =>
             /\ compose_out.style \in Discovered(styles_dir)
             /\ ~FileReadable(styles_dir, compose_out.style)

\* C14: for every pair that composes, the text returned is exactly the
\* theme's CSS text, then a blank-line separator, then the style's CSS text:
\* theme first, style last, nothing added, removed or reordered.
C14_ThemeThenStyle ==
    compose_out.status = "ok" =>
        LET theme_css == FileText(themes_dir, "themes", compose_out.theme)
            style_css == FileText(styles_dir, "styles", compose_out.style)
            css == compose_out.css
        IN /\ Len(css) = Len(theme_css) + 1 + Len(style_css)
           /\ SubSeq(css, 1, Len(theme_css)) = theme_css
           /\ css[Len(theme_css) + 1] = "\n\n"
           /\ SubSeq(css, Len(theme_css) + 2, Len(css)) = style_css

C14_Witness ==
    /\ compose_out.status = "ok"
    /\ compose_out.style = "technical"
    /\ compose_out.theme = "default"
    /\ Len(compose_out.css) = 5

\* the pairs of a discovered style key and a discovered theme key
ValidPairs == Discovered(styles_dir) \X Discovered(themes_dir)

\* what validate_combination and get_available_combinations answer
ValidationMatchesDiscovery ==
    /\ reg_out.op = "validate_combination" =>
          (reg_out.valid <=> <<reg_out.style, reg_out.theme>> \in ValidPairs)
    /\ reg_out.op = "get_available_combinations" =>
          /\ Range(reg_out.pairs) = ValidPairs
          /\ Len(reg_out.pairs) = Cardinality(ValidPairs)

\* C15: compose succeeds and returns non-empty CSS for exactly the pairs
\* whose style key is a discovered style and whose theme key is a discovered
\* theme; validate_combination answers True for exactly those pairs and
\* get_available_combinations lists exactly those pairs.
C15_ComposeExactlyValidPairs ==
    /\ compose_out.called =>
          ((compose_out.status = "ok" /\ compose_out.css # <<>>)
             <=> <<compose_out.style, compose_out.theme>> \in ValidPairs)
    /\ ValidationMatchesDiscovery

\* C15 as the code has it: compose succeeds for exactly the valid pairs whose
\* two CSS files can be read; validation and the list of combinations are
\* those of the valid pairs, readable or not.
C15_ComposeExactlyReadableValidPairs ==
    /\ compose_out.called =>
          ((compose_out.status = "ok" /\ compose_out.css # <<>>)
             <=> /\ <<compose_out.style, compose_out.theme>> \in ValidPairs
                 /\ FileReadable(styles_dir, compose_out.style)
                 /\ FileReadable(themes_dir, compose_out.theme))
    /\ ValidationMatchesDiscovery

\* a valid pair whose theme file cannot be read has been composed
C15_Witness ==
    /\ compose_out.called
    /\ <<compose_out.style, compose_out.theme>> \in ValidPairs
    /\ ~FileReadable(themes_dir, compose_out.theme)
    /\ compose_out.status = "error"

\* the descriptor of a file that gave no metadata
DefaultDescriptor(kind, key) ==
    [name |-> <<Title[key]>>, description |-> <<Title[key], KindWord(kind)>>,
     file |-> <<kind, key>>]

NoMetadata(dir, key) == key \in dir.unreadable \cup dir.uncommented

DiscoveryCovers(kind, dir, seen) ==
    (seen.called /\ dir.exists) =>
        /\ DOMAIN seen.map = dir.files
        /\ \A k \in dir.files :
              /\ seen.map[k].file = <<kind, k>>
              /\ NoMetadata(dir, k) => seen.map[k] = DefaultDescriptor(kind, k)

\* C23: discovery returns one descriptor per CSS file, keyed by the stem,
\* also when a file cannot be read or holds no block comment; such a file
\* gets the title-cased key as name and "<Key> style" / "<Key> theme" as
\* description, and the other files of the directory are still listed.
C23_DiscoveryToleratesBadMetadata ==
    /\ DiscoveryCovers("styles", styles_dir, reg_out.styles)
    /\ DiscoveryCovers("themes", themes_dir, reg_out.themes)

\* a scan of a styles directory with one unreadable file and one file that
\* has its comment
C23_Witness ==
    /\ reg_out.styles.called
    /\ reg_out.styles.scanned
    /\ \E bad \in styles_dir.unreadable, good \in styles_dir.files :
          /\ reg_out.styles.map[bad] = DefaultDescriptor("styles", bad)
          /\ reg_out.styles.map[good] # DefaultDescriptor("styles", good)

(***************************************************************************)
(* Claims about the registry while its directories change                  *)
(* (checked under SpecRegistryLive).                                       *)
(***************************************************************************)
\* a discovery answered from the populated cache, without listing the directory
FromCache(cache) == [called |-> TRUE, scanned |-> FALSE, map |-> cache.map]

\* a step that is an operation of the registry: every other step changes a
\* directory
CallStep == UNCHANGED <<styles_dir, themes_dir>>

\* C11: once discover_styles (resp. discover_themes) has populated its
\* cache, no step, whether an operation of the registry or a change of the
\* directory, resets or replaces the cache, and every discovery made by a
\* later discover, list, validate, combinations or compose call returns the
\* cached mapping without listing the directory.
C11_PopulatedCacheIsKept ==
    [][/\ styles_cache.populated =>
            /\ styles_cache' = styles_cache
            /\ CallStep =>
                  /\ reg_out'.styles.called => reg_out'.styles = FromCache(styles_cache)
                  /\ compose_out'.styles.called =>
                        compose_out'.styles = FromCache(styles_cache)
       /\ themes_cache.populated =>
            /\ themes_cache' = themes_cache
            /\ CallStep =>
                  /\ reg_out'.themes.called => reg_out'.themes = FromCache(themes_cache)
                  /\ compose_out'.themes.called =>
                        compose_out'.themes = FromCache(themes_cache)]_vars

\* a discovery answered from the cache although the directory now holds
\* other files than the cached mapping
C11_Witness ==
    /\ reg_out.op = "discover_styles"
    /\ styles_cache.populated
    /\ reg_out.styles = FromCache(styles_cache)
    /\ DOMAIN styles_cache.map # Discovered(styles_dir)
    /\ DOMAIN styles_cache.map # {}

\* C12: the result of compose is cached per (style, theme) pair: once
\* compose has returned a CSS text for a pair, the next compose with the
\* same pair returns that same text, even if the CSS files were rewritten
\* or removed in between.
C12_ComposeResultIsCached ==
    [][(/\ compose_out.status = "ok"
        /\ compose_out'.called
        /\ compose_out'.style = compose_out.style
        /\ compose_out'.theme = compose_out.theme)
       => /\ compose_out'.status = "ok"
          /\ compose_out'.css = compose_out.css]_vars

\* what one discovery does, from the cache and directory before the call to
\* the mapping it returns (seen) and the cache after it
DiscoveryStep(cache, dir, seen, cache_after) ==
    /\ (~cache.populated /\ ~dir.exists) =>
          /\ seen.map = NoMap
          /\ ~seen.scanned
          /\ ~cache_after.populated
    /\ (~cache.populated /\ dir.exists) =>
          /\ seen.scanned
          /\ DOMAIN seen.map = dir.files
          /\ cache_after = [populated |-> TRUE, map |-> seen.map]
    /\ cache.populated =>
          /\ seen = FromCache(cache)
          /\ cache_after = cache

\* C30: a discovery that finds its directory missing returns the empty
\* mapping and leaves the cache unpopulated, so that a later call looks at
\* the directory again; a discovery that finds the directory stores what it
\* found, an empty mapping too, and every later call returns that.
C30_MissingDirectoryIsNotCached ==
    [][CallStep =>
          /\ reg_out'.styles.called =>
                DiscoveryStep(styles_cache, styles_dir, reg_out'.styles, styles_cache')
          /\ reg_out'.themes.called =>
                DiscoveryStep(themes_cache, themes_dir, reg_out'.themes, themes_cache')]_vars

\* the styles directory was missing at a first discovery, was created
\* without any file and scanned by a second one, got a file afterwards, and
\* discovery still returns the stored empty mapping
C30_Witness ==
    /\ reg_out.op = "discover_styles"
    /\ reg_out.styles = FromCache(styles_cache)
    /\ styles_cache.populated
    /\ styles_cache.map = NoMap
    /\ styles_dir.files # {}

(***************************************************************************)
(* Claims about concurrent conversions (checked under SpecThreads).        *)
(***************************************************************************)
\* the mapping a complete scan of the directory yields
FullMap(kind) == [k \in Discovered(DirOf(kind)) |-> Descriptor(kind, DirOf(kind), k)]

\* how the constructor of a converter ends when it runs alone
Alone ==
    combine_style_and_theme(EmptyCache, EmptyCache, styles_dir, themes_dir,
                            RequestOf("styles"), RequestOf("themes")).status

\* C13: with several threads converting concurrently on the shared registry,
\* also while a cache is populated for the first time, every discovery
\* returns the complete mapping of the directory, a cache holds either
\* nothing or the complete mapping, and every constructor that succeeds
\* alone succeeds.
C13_ThreadsSeeCompleteMappings ==
    /\ styles_cache.populated => styles_cache.map = FullMap("styles")
    /\ themes_cache.populated => themes_cache.map = FullMap("themes")
    /\ \A t \in Threads :
          /\ thr[t].styles.called => thr[t].styles.map = FullMap("styles")
          /\ thr[t].themes.called => thr[t].themes.map = FullMap("themes")
          /\ (thr[t].pc = "done" /\ Alone = "ok") => thr[t].status = "ok"

\* the race: both threads scanned the styles directory themselves, the
\* mapping has two entries, and both constructors succeeded
C13_Witness ==
    /\ \A t \in Threads :
          /\ thr[t].styles.scanned
          /\ thr[t].pc = "done"
          /\ thr[t].status = "ok"
    /\ Cardinality(DOMAIN styles_cache.map) = 2

(***************************************************************************)
(* Claims about the header composer (checked under SpecHeader).            *)
(***************************************************************************)
\* neither a logo image nor a Markdown file, or no header directory
NoHeaderAssets == ~header_dir.exists \/ (header_dir.logos = {} /\ header_dir.md = "none")

\* C16: with the header enabled but neither a logo nor a Markdown file in
\* the header directory (or no directory), the header HTML and CSS come back
\* empty without error and the assembled document is identical to the one
\* assembled for the same content with the header disabled.
C16_AbsentHeaderAsDisabled ==
    (header_out.called /\ header_out.include_header /\ NoHeaderAssets)
    => /\ ~header_out.raised
       /\ header_out.header_html = <<>>
       /\ header_out.header_css = <<>>
       /\ header_out.document =
             create_html_document(FALSE, header_dir, HtmlContent).document

\* C17: whenever create_header_html returns, its CSS is non-empty exactly
\* when its HTML is non-empty; with the header disabled both are empty, no
\* error is raised and the header directory is not read.
C17_HeaderCssIffHeaderHtml ==
    header_out.called =>
       /\ ~header_out.raised =>
             (header_out.header_css # <<>> <=> header_out.header_html # <<>>)
       /\ ~header_out.include_header =>
             /\ ~header_out.raised
             /\ ~header_out.read
             /\ header_out.header_html = <<>>
             /\ header_out.header_css = <<>>

\* enabled, and the only asset is a Markdown file that yields no HTML
C17_Witness ==
    /\ header_out.called
    /\ header_out.include_header
    /\ ~header_out.raised
    /\ header_dir.exists
    /\ header_dir.md = "blank"
    /\ header_dir.logos = {}
    /\ header_out.header_css = <<>>

(***************************************************************************)
(* Claims about syntax highlighting (checked under SpecHighlight).         *)
(***************************************************************************)
\* the length of the code block html starts with (opening, text, closing),
\* 0 when it does not start with one
BlockLen(html) ==
    IF html # <<>> /\ Head(html).tag = "open"
       /\ \E j \in 2..Len(html) :
             html[j] = Close /\ \A i \in 2..(j - 1) : html[i] = OtherText
    THEN CHOOSE j \in 2..Len(html) :
            html[j] = Close /\ \A i \in 2..(j - 1) : html[i] = OtherText
    ELSE 0

\* the parts of an HTML text in order: each code block, and each token that
\* is not inside one
RECURSIVE Parts(_)
Parts(html) ==
    IF html = <<>> THEN <<>>
    ELSE IF BlockLen(html) # 0
    THEN <<SubSeq(html, 1, BlockLen(html))>>
         \o Parts(SubSeq(html, BlockLen(html) + 1, Len(html)))
    ELSE <<<<Head(html)>>>> \o Parts(Tail(html))

IsBlock(part) == Len(part) >= 2
CodeOf(part) == SubSeq(part, 2, Len(part) - 1)

\* every opening has its closing before the next opening, and no closing
\* stands alone
WellFormed(html) ==
    \A k \in 1..Len(Parts(html)) :
        IsBlock(Parts(html)[k]) \/ Parts(html)[k][1].tag = "text"

\* the output has the parts of the input, in order; a part differs only if
\* it is a code block with a language class, which may have become the
\* codehilite block of its code
FrameKept(input, output) ==
    /\ Len(Parts(output)) = Len(Parts(input))
    /\ \A k \in 1..Len(Parts(input)) :
          LET a == Parts(input)[k]
              b == Parts(output)[k]
          IN \/ b = a
             \/ /\ IsBlock(a)
                /\ a[1].lang # ""
                /\ Len(b) = 1
                /\ b[1].tag = "codehilite"
                /\ b[1].code = CodeOf(a)

\* C18: every code block tagged language-<name> whose name no lexer resolves
\* comes back as the codehilite block of its code highlighted by the
\* plain-text lexer.
C18_UnknownLanguageWrapped ==
    (highlighted.called /\ WellFormed(html_text)) =>
        /\ Len(Parts(highlighted.html)) = Len(Parts(html_text))
        /\ \A k \in 1..Len(Parts(html_text)) :
              LET a == Parts(html_text)[k]
              IN (IsBlock(a) /\ a[1].lang # "" /\ get_lexer(a[1].lang) = "TextLexer")
                 => Parts(highlighted.html)[k] = <<Codehilite("TextLexer", CodeOf(a))>>

\* C19: only code blocks with a language class are rewritten; every other
\* part of the HTML, code blocks without a language class included, is in
\* the output unchanged and at the same position, and the number and order
\* of the parts are kept.
C19_OnlyTaggedBlocksRewritten ==
    highlighted.called => FrameKept(html_text, highlighted.html)

\* C19 for HTML whose code blocks are each closed before the next one opens
C19_FrameOnWellFormedHtml ==
    (highlighted.called /\ WellFormed(html_text)) =>
        FrameKept(html_text, highlighted.html)

\* a block with a language class next to one without: the first is
\* rewritten, the second is not
C19_Witness ==
    /\ highlighted.called
    /\ WellFormed(html_text)
    /\ html_text = <<Open("python"), Close, Open(""), Close>>
    /\ highlighted.html = <<Codehilite("PythonLexer", <<>>), Open(""), Close>>

(***************************************************************************)
(* Claims about the Word renderer (checked under SpecWord).                *)
(***************************************************************************)
\* the parent of the element at i, 0 for an element at the top
Parent(d, i) ==
    IF \E j \in 1..(i - 1) : i \in Children(d, j)
    THEN CHOOSE j \in 1..(i - 1) : i \in Children(d, j)
    ELSE 0

\* the style the mapping gives the element at i, "none" for an element that
\* is to produce no paragraph
MappedStyle(d, i) ==
    IF i \in Decomposed(d) THEN "none"
    ELSE IF d[i].tag \in Headings \cup {"p"} THEN apply_style(d[i].tag)
    ELSE IF d[i].tag = "blockquote" THEN "Quote"
    ELSE IF d[i].tag \in {"pre", "code"} THEN "No Spacing"
    ELSE IF d[i].tag = "li" /\ Parent(d, i) # 0
    THEN (IF d[Parent(d, i)].tag = "ul" THEN "List Bullet"
          ELSE IF d[Parent(d, i)].tag = "ol" THEN "List Number"
          ELSE "none")
    ELSE "none"

\* every mapped element has a paragraph of its style, and every paragraph
\* is that of a mapped element
StylesMapped ==
    LET ps == doc_paragraphs.paragraphs
    IN /\ \A k \in 1..Len(ps) :
             /\ MappedStyle(soup, ps[k].src) # "none"
             /\ ps[k].style = MappedStyle(soup, ps[k].src)
       /\ \A i \in 1..Len(soup) :
             MappedStyle(soup, i) # "none" => \E k \in 1..Len(ps) : ps[k].src = i

\* C20: each hN becomes a 'Heading N' paragraph, each p 'Normal', each
\* direct li of a ul 'List Bullet', of an ol 'List Number', each blockquote
\* 'Quote', each pre or code 'No Spacing'; the paragraphs are in the
\* document order of their source elements; script/style content and other
\* elements produce no paragraph.
C20_StyledInDocumentOrder ==
    doc_paragraphs.built =>
        /\ StylesMapped
        /\ \A k, l \in 1..Len(doc_paragraphs.paragraphs) :
              k < l => doc_paragraphs.paragraphs[k].src <= doc_paragraphs.paragraphs[l].src

\* the mapping of elements to styles alone, without the order
C20_StylesMapped == doc_paragraphs.built => StylesMapped

\* C27: every content block is mapped to exactly one paragraph: no two
\* paragraphs hold the same element, and none holds an element nested in
\* the element of another paragraph (a code in a pre, a p in a blockquote
\* or in a list item, a list in a list item), whose text that other
\* paragraph already contains.
C27_NoBlockEmittedTwice ==
    doc_paragraphs.built =>
        \A a \in 1..Len(doc_paragraphs.paragraphs), b \in 1..Len(doc_paragraphs.paragraphs) :
            a # b =>
                /\ doc_paragraphs.paragraphs[a].src # doc_paragraphs.paragraphs[b].src
                /\ doc_paragraphs.paragraphs[b].src
                      \notin Subtree(soup, doc_paragraphs.paragraphs[a].src)

(***************************************************************************)
(* Claims about the Markdown pipeline (checked under SpecPipeline).        *)
(***************************************************************************)
Runs == 1..Len(mdp.runs)

HasTag(html, tag) == \E k \in 1..Len(html) : html[k].tag = tag

C22_MissingEmojiLibrarySkipsReplacement ==
    \A i \in Runs :
        ~mdp.emoji_lib =>
            /\ mdp.runs[i].raised = "none"
            /\ mdp.runs[i].html = mdp.runs[i].highlighted

(***************************************************************************)
(* Claims about the command line (checked under SpecCli).                  *)
(***************************************************************************)
Calls == 1..Len(cli.calls)

CallsWith(outcomes) == Cardinality({k \in Calls : cli.calls[k].outcome \in outcomes})

C26_BatchWritesIntoOutputDirectory ==
    cli.command = "batch" =>
        IF cli.output_directory.given
        THEN /\ cli.pc \in {"loop", "convert"} => cli.output_directory.path.dir \in cli.dirs
             /\ \A k \in Calls :
                   cli.calls[k].outcome = "True" =>
                      cli.calls[k].output_file.dir = cli.output_directory.path.dir
        ELSE \A k \in Calls :
                cli.calls[k].outcome = "True" =>
                   cli.calls[k].output_file.dir = cli.calls[k].input_file.dir

(***************************************************************************)
(* Claims about the folder workflow (checked under SpecWorkflow).          *)
(***************************************************************************)
Turns == 1..Len(wf.log)

Moved == {k \in Turns : wf.log[k].moved}

\* C28: process_files moves an input file to the processed folder exactly
\* when its conversion returned True; a file whose conversion returned
\* False stays in the input folder and the next file is processed; the
\* count returned is the number of files moved; and a move never replaces
\* a file of the processed folder: it takes an unused <stem>_<n> name.
C28_MovedIffConverted ==
    /\ \A k \in Turns :
          /\ wf.log[k].input_file = wf.markdown_files[k]
          /\ wf.log[k].moved <=> wf.log[k].outcome = "True"
          /\ ~wf.log[k].overwrote_processed
    /\ wf.input = wf.input0 \ {wf.log[k].input_file : k \in Moved}
    /\ wf.processed = wf.processed0 \cup {wf.log[k].processed_path : k \in Moved}
    /\ Cardinality(wf.processed) = Cardinality(wf.processed0) + Cardinality(Moved)
    /\ wf.success_count = Cardinality(Moved)
    /\ (wf.pc = "loop" /\ wf.log # <<>> /\ wf.log[Len(wf.log)].outcome = "False") =>
          wf.i = Len(wf.log) + 1
    /\ wf.pc = "returned" =>
          /\ wf.returned = Cardinality(Moved)
          /\ Len(wf.log) = Len(wf.markdown_files)

\* a run over two files: the first fails and stays, the second is moved
\* under a new name because the processed folder holds its name already
C28_Witness ==
    /\ wf.pc = "returned"
    /\ Len(wf.log) = 2
    /\ wf.log[1].outcome = "False"
    /\ wf.log[1].input_file \in wf.input
    /\ wf.log[2].outcome = "True"
    /\ wf.log[2].input_file \in wf.processed0
    /\ wf.log[2].processed_path # wf.log[2].input_file
    /\ wf.returned = 1

\* C29: the workflow never writes over a file of the output folder: a
\* conversion whose output exists already writes to an unused path.
C29_OutputNeverOverwritten ==
    \A k \in Turns : ~wf.log[k].overwrote_output

(***************************************************************************)
(* Claims about the converters (checked under Spec).                       *)
(***************************************************************************)
Returned == pc \in {"returned", "extracted"}

\* the statements inside the try block of convert(), the second pass left out
ConvertSteps == {"ensure_ext", "read", "transform", "highlight", "emoji", "assemble",
                 "render"}

\* the points of _embed_watermark that can fail
EmbedFaults == {"wm_lib", "wm_read", "wm_copy", "wm_meta", "wm_xmp", "wm_open", "wm_write"}

\* C1: convert() never raises: when any step inside it fails, or the renderer
\* library is unavailable, it returns False; it returns True only when the
\* render/save step completed without error.
C1_ConvertReturnsBoolean ==
    /\ Returned => result \in {"True", "False"}
    /\ ~Returned => result = "none"
    /\ faults \cap ConvertSteps # {} => Returned /\ result = "False"
    /\ (Returned /\ conv.fmt = "pdf" /\ ~lib.weasyprint) => result = "False"
    /\ result = "True" =>
          /\ Contains(steps, "render")
          /\ "render" \notin faults
          /\ conv.output_file \in written

\* the renderer raised after the file was opened: convert() returned False
C1_Witness ==
    /\ pc = "returned"
    /\ result = "False"
    /\ faults = {"render"}
    /\ fs[conv.output_file] = Partial

ExtensionOf(fmt) == IF fmt = "pdf" THEN ".pdf" ELSE ".docx"

\* C3 as stated: every path written has the extension .pdf (resp. .docx),
\* whatever output path the caller supplied.
C3_WrittenExtensionExact ==
    \A p \in written : p.suffix = ExtensionOf(conv.fmt)

\* C3 as the code has it: every path written has the extension .pdf (resp.
\* .docx) up to letter case -- it is spelled exactly .pdf / .docx unless the
\* caller's own path already ended in an upper-case spelling of it, which is
\* kept -- and it is the caller's path with its suffix replaced (the input's
\* when none was supplied); a path with another suffix is never written.
C3_WrittenExtensionNormalised ==
    \A p \in written :
        /\ Lower(p.suffix) = ExtensionOf(conv.fmt)
        /\ p.suffix # ExtensionOf(conv.fmt) => conv.output_arg.given /\ p = conv.output_arg.path
        /\ p.stem = IF conv.output_arg.given THEN conv.output_arg.path.stem
                    ELSE conv.input_file.stem
        /\ p = conv.output_file

\* the caller asked for out.txt and the PDF went to out.pdf
C3_Witness ==
    /\ result = "True"
    /\ conv.fmt = "pdf"
    /\ conv.output_arg = [given |-> TRUE, path |-> [stem |-> "out", suffix |-> ".txt"]]
    /\ written = {[stem |-> "out", suffix |-> ".pdf"]}

\* C4: when the input file does not exist the conversion reports failure and
\* no output file is created or modified: the render step and the watermark
\* second pass are never reached.
C4_MissingInputWritesNothing ==
    fs0[InputPath].kind = "absent" =>
        /\ Returned => result = "False"
        /\ result # "True"
        /\ fs = fs0
        /\ written = {}
        /\ \A i \in 1..Len(steps) : steps[i] = "read"
        /\ pc \notin {"render", "wm_lib", "wm_read", "wm_copy", "wm_meta", "wm_xmp",
                      "wm_write", "success"}

\* a converter was built for a missing file, convert() stopped at the read
C4_Witness ==
    /\ fs0[InputPath].kind = "absent"
    /\ pc = "returned"
    /\ result = "False"
    /\ steps = <<"read">>
    /\ faults = {"read"}

\* the second pass ran to its end: writer.write() completed
Embedded == Contains(steps, "wm_write") /\ faults \cap {"wm_open", "wm_write"} = {}

C9_EmbedFailureKeepsPdf ==
    (/\ conv.fmt = "pdf"
     /\ WatermarkTruthy(conv.watermark)
     /\ faults \cap EmbedFaults # {})
    => /\ warned
       /\ fs[conv.output_file].kind = "pdf"
       /\ Returned => result = "True"

\* What the code guarantees after a failed second pass: the warning and the
\* True result; the file is the first-pass PDF unless writer.write() failed.
C9_EmbedFailureStillTrue ==
    (/\ conv.fmt = "pdf"
     /\ WatermarkTruthy(conv.watermark)
     /\ faults \cap EmbedFaults # {})
    => /\ warned
       /\ Returned => result = "True"
       /\ "wm_write" \notin faults => fs[conv.output_file] = Pdf(NoText, NoText)

PipelineOrder == <<"read", "transform", "highlight", "emoji", "assemble", "render">>

IsPipelineStep(x) == Contains(PipelineOrder, x)

IsSecondPassStep(x) == x \in {"wm_read", "wm_copy", "wm_meta", "wm_xmp", "wm_write"}

\* the steps run so far are the first ones of the pipeline, in its order, each
\* once, and every one but the last succeeded; the second pass runs only
\* after a successful render of a PDF and only with a watermark
StepOrderHolds ==
    LET run == SelectSeq(steps, IsPipelineStep)
        second == SelectSeq(steps, IsSecondPassStep)
    IN /\ Len(run) <= Len(PipelineOrder)
       /\ run = SubSeq(PipelineOrder, 1, Len(run))
       /\ \A i \in 1..(Len(run) - 1) : run[i] \notin faults
       /\ steps = run \o second
       /\ second # <<>> =>
             /\ conv.fmt = "pdf"
             /\ WatermarkTruthy(conv.watermark)
             /\ Contains(run, "render")
             /\ "render" \notin faults
       /\ (Contains(run, "render") /\ ~WatermarkTruthy(conv.watermark)) =>
             /\ second = <<>>
             /\ "render" \notin faults => fs[conv.output_file].meta = NoText

\* C10: in every conversion, for either format, the steps occur in the order
\* read, transform, highlight, emoji, assembly, rendering, each at most once
\* and only after every earlier step succeeded; the watermark second pass
\* runs only after a successful PDF render and only if a watermark was given.
C10_StepOrder == StepOrderHolds

\* The order holds of every PDF conversion.
C10_StepOrderPdf == conv.fmt = "pdf" => StepOrderHolds

\* C24: a converter built for an input file that does not exist raises at
\* construction, before convert() and any of its steps can run.
C24_MissingInputRaisesAtConstruction ==
    (fs0[InputPath] = Absent /\ pc # "new") => (pc = "ctor_raised" /\ steps = <<>>)

====
